---- MODULE Spec2Model ----
(***************************************************************************)
(* HAProxy cloud-discovery daemon: the Reconciler, the Transaction scope   *)
(* and the Dataplane API they drive.                                       *)
(*                                                                         *)
(* One action per Dataplane call of the code (a call is the only place a   *)
(* handler can fail or be overtaken by another writer); the control flow   *)
(* between two calls is part of the action of the earlier call.            *)
(***************************************************************************)
EXTENDS Integers, Sequences, FiniteSets, TLC

VARIABLES
  cfg,               \* HAProxyConfig the Reconciler was constructed with
  lb,                \* committed load-balancer configuration (Dataplane side)
  txns,              \* Dataplane transactions created during the current call
  pc,                \* position of the running handler
  changed_services,  \* reconcile() argument
  removed_keys,      \* reconcile() argument
  attempt,           \* reconcile(): loop variable, 0 when reconcile is not running
  txn,               \* Transaction object: id, version read, _changed
  exc,               \* exception in flight inside the with-scope
  result,            \* outcome of the last call: returned / conflict / error
  service_idx,       \* _do_reconcile: index into changed_services
  key_idx,           \* _do_reconcile: index into removed_keys
  existing_servers,  \* _reconcile_service: names read by list_servers, in order
  slot_idx,          \* _reconcile_service: index into slot_names
  extra_idx,         \* _reconcile_service: index into existing_servers (delete loop)
  servers,           \* _disable_all_servers: names read by list_servers
  server_idx,        \* _disable_all_servers: index into servers
  calls,             \* Dataplane calls of the current attempt, in order; once
                     \* _safe_delete closed it, its delete_transaction call
  history,           \* one summary per finished attempt of the current call
  faults,            \* failures injected by the Dataplane side in the current call
  at,                \* Daemon: position of run() and of the functions it calls
  _shutdown,         \* Daemon._shutdown
  _consecutive_failures,  \* Daemon._consecutive_failures
  _previous,         \* ChangeDetector._previous: key -> ServiceState
  services,          \* _cycle: the grouped services of this cycle, in dict order
  changed,           \* detect: the list `changed`; _cycle: the list detect returned
  removed,           \* detect: the list `removed`; _cycle: the list detect returned
  detect_idx,        \* detect: index into current_services.items()
  remaining,         \* _interruptible_sleep: end - time.monotonic()
  detected,          \* (observation) argument of the last detect call that
                     \* returned; None once a reset ran after it
  same,              \* (observation) the detect call of this cycle began with
                     \* the argument of the last one, and no reset ran since
  entry,             \* (observation) _previous when the detect call of this cycle
                     \* began; None once a reset ran while the call was running
  hup,               \* (observation) the part of the loop where the last SIGHUP
                     \* arrived that no detect call has begun after
  obliged,           \* (observation) hup when the detect call of this cycle began
  reconciled,        \* (observation) this cycle has called reconcile
  waited,            \* (observation) time slept in this sleep with the flag set
  args,              \* a function called on its own: its name and arguments
  ret                \* that call: None while it runs, Some(value) once it returned

reconcilerVars == <<cfg, lb, txns, pc, changed_services, removed_keys, attempt, txn,
                    exc, result, service_idx, key_idx, existing_servers, slot_idx,
                    extra_idx, servers, server_idx, calls, history, faults>>

daemonVars == <<at, _shutdown, _consecutive_failures, _previous, services, changed,
                removed, detect_idx, remaining, detected, same, entry, hup,
                obliged, reconciled, waited>>

callVars == <<args, ret>>

vars == <<reconcilerVars, daemonVars, callVars>>

inputVars == <<changed_services, removed_keys>>
serviceVars == <<existing_servers, slot_idx, extra_idx>>
removedVars == <<servers, server_idx>>

-----------------------------------------------------------------------------
(* Bounds of the model *)

MaxInstances == 12   \* largest number of instances of one service
MaxFaults == 3       \* failures the Dataplane side injects per reconcile call
MaxVersion == 3      \* configuration versions 1..MaxVersion
MaxBody == 2         \* client calls in the body of a directly used Transaction
MaxFailures == 2     \* cycles in a row the cloud API or the Dataplane API make fail
MaxListed == 3       \* instances in a list given to a function called on its own
MaxCount == 26       \* largest active count calculate_slots is called with on its own

(* Program constants *)

MAX_VERSION_RETRIES == 3
DefaultBase == 10

\* Time is counted in half seconds: the 1.0 of time.sleep(min(remaining, 1.0))
Second == 2

\* Python's None and Optional values: <<>> is None, <<v>> is the value v.
None == <<>>
Some(v) == <<v>>

-----------------------------------------------------------------------------
(* Arithmetic helpers *)

RECURSIVE Pow(_, _)
Pow(b, e) == IF e = 0 THEN 1 ELSE b * Pow(b, e - 1)

\* math.ceil(a / b) for a >= 0, b > 0
CeilDiv(a, b) == (a + b - 1) \div b

Max(a, b) == IF a >= b THEN a ELSE b

-----------------------------------------------------------------------------
(* SlotAllocator.  growth_factor is a float in the code; here it is the     *)
(* rational growth_num / growth_den (1.5 = 3/2, 0.5 = 1/2, 2.0 = 2/1).      *)

\* smallest n >= 0 with base * (num/den)^n >= count, for num > den
RECURSIVE ExpSteps(_, _, _, _, _)
ExpSteps(base, num, den, count, n) ==
  IF base * Pow(num, n) >= count * Pow(den, n) THEN n
  ELSE ExpSteps(base, num, den, count, n + 1)

\* largest m >= 0 with base * (den/num)^m <= count, for num < den
RECURSIVE ShrinkSteps(_, _, _, _, _)
ShrinkSteps(base, num, den, count, m) ==
  IF base * Pow(den, m + 1) > count * Pow(num, m + 1) THEN m
  ELSE ShrinkSteps(base, num, den, count, m + 1)

\* The exponential branch: None when math.log / the division raises.
exponential_slots(slots, active_count) ==
  LET base == slots.base
      num == slots.growth_num
      den == slots.growth_den
  IN  IF num <= 0 \/ num = den THEN None   \* log(<=0): ValueError; log(1)=0: ZeroDivisionError
      ELSE IF num > den
        THEN LET n == ExpSteps(base, num, den, active_count, 0)
             IN  Some(Max(CeilDiv(base * Pow(num, n), Pow(den, n)), active_count))
        ELSE LET m == ShrinkSteps(base, num, den, active_count, 0)
             IN  Some(Max(CeilDiv(base * Pow(den, m), Pow(num, m)), active_count))

\* Faulty variant: the extra slots are taken from the base
linear_slots_Shrinking(slots, active_count) ==
  slots.base - CeilDiv((active_count - slots.base) * slots.growth_num, slots.growth_den)

\* Faulty variant: the extra slots are rounded down
linear_slots_Floor(slots, active_count) ==
  slots.base + ((active_count - slots.base) * slots.growth_num) \div slots.growth_den

linear_slots(slots, active_count) ==
  slots.base + CeilDiv((active_count - slots.base) * slots.growth_num, slots.growth_den)

\* SlotAllocator.calculate_slots: Some(slot count), or None when it raises
calculate_slots(slots, active_count) ==
  IF active_count <= slots.base THEN Some(slots.base)
  ELSE IF slots.growth_type = "exponential" THEN exponential_slots(slots, active_count)
  ELSE Some(linear_slots(slots, active_count))

server_name(i) == "srv" \o ToString(i)

\* SlotAllocator.generate_server_names
generate_server_names(count) == [i \in 1..count |-> server_name(i)]

-----------------------------------------------------------------------------
(* discovery/models.py *)

\* The service keys (service_name, service_port, region) of the model
Key1 == <<"app", 8080, "eastus">>
Key2 == <<"db", 5432, "eastus">>
Keys == {Key1, Key2}

AZ_TAG == "HAProxy:Instance:AZperc"

\* Raw values of the AZ weight tag, as character sequences: "10", "25", "0",
\* "100", "-5", "abc" and "".
TagValues == << <<"1", "0">>, <<"2", "5">>, <<"0">>, <<"1", "0", "0">>,
                <<"-", "5">>, <<"a", "b", "c">>, <<>> >>

\* Instance number i of the service with the given key.  instance_id is a
\* string in the code; the model keeps its rank in Python's string order.
Instance(key, i) ==
  [ instance_id       |-> i,
    private_ip        |-> "10.0.0." \o ToString(i),
    service_name      |-> key[1],
    service_port      |-> key[2],
    region            |-> key[3],
    instance_port     |-> IF i % 2 = 0 THEN Some(9000 + i) ELSE None,
    availability_zone |-> CASE i % 3 = 0 -> None
                            [] i % 3 = 1 -> Some("1")
                            [] OTHER     -> Some("2"),
    created_at        |-> IF i % 4 = 0 THEN None ELSE Some(20240100 + i),
    tags              |-> IF i % 8 = 0
                            THEN [Name |-> <<"v", "m">>]
                            ELSE (AZ_TAG :> TagValues[i % 8]) @@ [Name |-> <<"v", "m">>] ]

\* DiscoveredInstance.effective_port
effective_port(inst) ==
  IF inst.instance_port # None THEN inst.instance_port[1] ELSE inst.service_port

\* DiscoveredInstance.backend_key
backend_key(inst) == <<inst.service_name, inst.service_port, inst.region>>

\* DiscoveredService.active_count
active_count(service) == Len(service.instances)

\* DiscoveredService.backend_name
backend_name(service, prefix, separator) ==
  prefix \o separator \o service.service_name \o separator
         \o ToString(service.service_port) \o separator \o service.region

\* The order in which discovery lists n instances: n, 1, n-1, 2, ...
DiscoveryOrder(n) ==
  [k \in 1..n |-> IF k % 2 = 1 THEN n - (k \div 2) ELSE k \div 2]

\* A DiscoveredService as group_instances builds it
Service(key, ids) ==
  [ service_name |-> key[1],
    service_port |-> key[2],
    region       |-> key[3],
    instances    |-> [k \in 1..Len(ids) |-> Instance(key, ids[k])] ]

\* Faulty variant: a service is created anew for every instance
RECURSIVE group_instances_Replacing(_)
group_instances_Replacing(instances) ==
  IF instances = <<>> THEN <<>>
  ELSE LET inst == instances[Len(instances)]
           grouped == group_instances_Replacing(SubSeq(instances, 1, Len(instances) - 1))
           key == backend_key(inst)
           others == [k \in DOMAIN grouped \ {key} |-> grouped[k]]
       IN  (key :> [ service_name |-> inst.service_name,
                     service_port |-> inst.service_port,
                     region       |-> inst.region,
                     instances    |-> <<inst>> ]) @@ others

\* group_instances: the dict from backend_key to DiscoveredService, built by
\* one pass over the list
RECURSIVE group_instances(_)
group_instances(instances) ==
  IF instances = <<>> THEN <<>>
  ELSE LET inst == instances[Len(instances)]
           grouped == group_instances(SubSeq(instances, 1, Len(instances) - 1))
           key == backend_key(inst)
       IN  IF key \notin DOMAIN grouped
             THEN (key :> [ service_name |-> inst.service_name,
                            service_port |-> inst.service_port,
                            region       |-> inst.region,
                            instances    |-> <<inst>> ]) @@ grouped
             ELSE [grouped EXCEPT ![key].instances = Append(@, inst)]

\* sorted(service.instances, key=lambda i: i.instance_id): insertion into a
\* sorted prefix, stable for equal ids
RECURSIVE InsertById(_, _)
InsertById(sorted, inst) ==
  IF sorted = <<>> THEN <<inst>>
  ELSE IF Head(sorted).instance_id <= inst.instance_id
    THEN <<Head(sorted)>> \o InsertById(Tail(sorted), inst)
    ELSE <<inst>> \o sorted

RECURSIVE SortedById(_)
SortedById(instances) ==
  IF instances = <<>> THEN <<>>
  ELSE InsertById(SortedById(SubSeq(instances, 1, Len(instances) - 1)),
                  instances[Len(instances)])

-----------------------------------------------------------------------------
(* haproxy/reconciler.py: names and server data *)

\* Reconciler._backend_name_from_key
_backend_name_from_key(config, key) ==
  config.backend.name_prefix \o config.backend.name_separator \o key[1]
    \o config.backend.name_separator \o ToString(key[2])
    \o config.backend.name_separator \o key[3]

DigitValue ==
  ("0" :> 0) @@ ("1" :> 1) @@ ("2" :> 2) @@ ("3" :> 3) @@ ("4" :> 4) @@
  ("5" :> 5) @@ ("6" :> 6) @@ ("7" :> 7) @@ ("8" :> 8) @@ ("9" :> 9)

RECURSIVE DigitsValue(_, _)
DigitsValue(chars, acc) ==
  IF chars = <<>> THEN acc
  ELSE DigitsValue(Tail(chars), 10 * acc + DigitValue[Head(chars)])

AllDigits(chars) ==
  chars # <<>> /\ \A k \in 1..Len(chars) : chars[k] \in DOMAIN DigitValue

\* int(raw) for a string of an optional sign and decimal digits: Some(value),
\* or None for the ValueError
ParseInt(raw) ==
  IF raw # <<>> /\ Head(raw) \in {"-", "+"}
    THEN IF AllDigits(Tail(raw))
           THEN Some((IF Head(raw) = "-" THEN -1 ELSE 1) * DigitsValue(Tail(raw), 0))
           ELSE None
    ELSE IF AllDigits(raw) THEN Some(DigitsValue(raw, 0)) ELSE None

\* Faulty variant: any integer is taken as the percentage
_parse_az_perc_AnyInt(raw) ==
  IF raw = None THEN None ELSE ParseInt(raw[1])

\* Reconciler._parse_az_perc: raw is None or Some(character sequence)
_parse_az_perc(raw) ==
  IF raw = None THEN None
  ELSE LET val == ParseInt(raw[1])
       IN  IF val = None THEN None
           ELSE IF 1 <= val[1] /\ val[1] <= 99 THEN val ELSE None

\* instance.tags.get(tag)
TagGet(tags, tag) == IF tag \in DOMAIN tags THEN Some(tags[tag]) ELSE None

\* Reconciler._active_server_data
_active_server_data(config, name, address, port, instance) ==
  LET server_data == [ name        |-> name,
                       address     |-> address,
                       port        |-> port,
                       maintenance |-> "disabled",
                       check       |-> "enabled",
                       cookie      |-> name ]
  IN  IF config.availability_zone # None
        THEN LET az_perc == _parse_az_perc(TagGet(instance.tags, config.az_weight_tag))
                 same_az == \/ instance.availability_zone = None
                            \/ instance.availability_zone = config.availability_zone
             IN  IF az_perc # None
                   THEN [weight |-> IF same_az THEN 100 - az_perc[1] ELSE az_perc[1]]
                          @@ server_data
                   ELSE IF ~same_az
                     THEN [backup |-> "enabled"] @@ server_data
                     ELSE server_data
        ELSE server_data

\* Faulty variant: the placeholder is left enabled
_maintenance_server_data_Enabled(name) ==
  [ name        |-> name,
    address     |-> "127.0.0.1",
    port        |-> 80,
    maintenance |-> "disabled",
    check       |-> "disabled" ]

\* Reconciler._maintenance_server_data
_maintenance_server_data(name) ==
  [ name        |-> name,
    address     |-> "127.0.0.1",
    port        |-> 80,
    maintenance |-> "enabled",
    check       |-> "disabled" ]

\* The body _ensure_backend posts: dict.update lets the options win
backend_data(config, name, service_name) ==
  LET base == [ name    |-> name,
                mode    |-> config.backend.mode,
                balance |-> [algorithm |-> config.backend.balance] ]
      has_extra == /\ service_name \in DOMAIN config.backend_options
                   /\ DOMAIN config.backend_options[service_name] # {}
  IN  IF has_extra THEN config.backend_options[service_name] @@ base ELSE base


-----------------------------------------------------------------------------
(* Configurations (config.py) the daemon is started with *)

BackendCfg ==
  [name_prefix |-> "azure", name_separator |-> "-", balance |-> "roundrobin", mode |-> "http"]

ServerSlots(type, num, den) ==
  [base |-> DefaultBase, growth_type |-> type, growth_num |-> num, growth_den |-> den]

HAProxyConfig(slots, az, options) ==
  [ backend           |-> BackendCfg,
    server_slots      |-> slots,
    availability_zone |-> az,
    az_weight_tag     |-> AZ_TAG,
    backend_options   |-> options ]

Configs ==
  { HAProxyConfig(ServerSlots("linear", 3, 2), Some("1"),
                  [app |-> [mode |-> "tcp", cookie |-> "STICK"]]),
    HAProxyConfig(ServerSlots("linear", 1, 2), None, [legacy |-> [cookie |-> "LEGACY"]]) }

BackendNames == {_backend_name_from_key(c, k) : c \in Configs, k \in Keys}

-----------------------------------------------------------------------------
(* The Dataplane API: a configuration is the backends and, per backend, the *)
(* ordered list of its servers.  Reads and writes that carry a transaction  *)
(* id act on the configuration staged in that transaction.                  *)

EmptyConfiguration ==
  [ backends |-> [b \in BackendNames |-> None],
    servers  |-> [b \in BackendNames |-> <<>>] ]

ServerNames(list) == [k \in 1..Len(list) |-> list[k].name]

Range(seq) == {seq[k] : k \in 1..Len(seq)}

\* GET backends/{name}: Some(backend) or None for the 404
StoredBackend(conf, name) ==
  IF name \in DOMAIN conf.backends THEN conf.backends[name] ELSE None

\* GET servers?backend=
StoredServers(conf, backend) ==
  IF backend \in DOMAIN conf.servers THEN conf.servers[backend] ELSE <<>>

\* POST backends
WithBackend(conf, data) ==
  [ backends |-> (data.name :> Some(data)) @@ conf.backends,
    servers  |-> (data.name :> <<>>) @@ conf.servers ]

\* POST servers?backend=
WithServer(conf, backend, data) ==
  [conf EXCEPT !.servers[backend] = Append(@, data)]

\* PUT servers/{name}?backend=
WithServerReplaced(conf, backend, name, data) ==
  [conf EXCEPT !.servers[backend] =
     [k \in 1..Len(@) |-> IF @[k].name = name THEN data ELSE @[k]]]

\* DELETE servers/{name}?backend=
WithoutServer(conf, backend, name) ==
  [conf EXCEPT !.servers[backend] = SelectSeq(@, LAMBDA s : s.name # name)]

\* What the Dataplane side answers when nothing goes wrong on its side
WriteStatus(conf, op, backend, name) ==
  CASE op = "create_backend" ->
         IF StoredBackend(conf, backend) = None THEN "ok" ELSE "conflict"
    [] op = "create_server" ->
         IF StoredBackend(conf, backend) = None THEN "error"
         ELSE IF name \in Range(ServerNames(StoredServers(conf, backend))) THEN "conflict"
         ELSE "ok"
    [] op \in {"replace_server", "delete_server"} ->
         IF name \in Range(ServerNames(StoredServers(conf, backend))) THEN "ok" ELSE "error"
    [] OTHER -> "ok"

\* The answers to one call: ok, conflict (HTTP 409) or error (another status
\* >= 400, or a transport failure); failures of the Dataplane side are bounded.
Answers(organic) ==
  IF organic # "ok" THEN {organic}
  ELSE {"ok"} \cup (IF faults < MaxFaults THEN {"conflict", "error"} ELSE {})

Charged(organic, r) == IF organic = "ok" /\ r # "ok" THEN faults + 1 ELSE faults

NoData == [name |-> ""]

\* What a list_servers call returned: the names, in order
Listing(listed, r) == IF r = "ok" THEN [name |-> "", servers |-> listed] ELSE NoData

Call(op, id, backend, server, data, r) ==
  [op |-> op, txn |-> id, backend |-> backend, server |-> server, data |-> data, status |-> r]

\* The configuration staged in the Transaction object's transaction
Staged == [backends |-> txns[txn.id].backends, servers |-> txns[txn.id].servers]

\* The transaction store once the scope is left with the given status: the
\* staged configuration of a transaction nobody refers to any more is dropped
Closed(status) ==
  [txns EXCEPT ![txn.id] = [ status   |-> status,
                             version  |-> @.version,
                             backends |-> EmptyConfiguration.backends,
                             servers  |-> EmptyConfiguration.servers ]]

Stage(conf) ==
  [txns EXCEPT ![txn.id].backends = conf.backends, ![txn.id].servers = conf.servers]


-----------------------------------------------------------------------------
(* haproxy/transaction.py and the control flow of Reconciler.reconcile *)

\* Transaction.__init__
NewTransaction == [id |-> 0, version |-> 0, _changed |-> FALSE]

\* Faulty variant: one attempt more than MAX_VERSION_RETRIES
Retried_OneMore(kind, att) == kind = "conflict" /\ att <= MAX_VERSION_RETRIES

\* Faulty variant: a version conflict is re-raised at once
Retried_Never(kind, att) == FALSE

\* Faulty variant: every DataplaneAPIError is retried, not only the 409
Retried_AnyError(kind, att) == att < MAX_VERSION_RETRIES

\* Reconciler.reconcile, the except clause: is the attempt repeated?
Retried(kind, att) == kind = "conflict" /\ att < MAX_VERSION_RETRIES

\* Faulty variant: a scope left without exception always commits
ExitCall_AlwaysCommit(exception, marked) ==
  IF exception # "none" THEN "delete_transaction" ELSE "commit_transaction"

\* Faulty variant: __exit__ does not look at the exception
ExitCall_IgnoresException(exception, marked) ==
  IF marked THEN "commit_transaction" ELSE "delete_transaction"

\* Faulty variant: a scope left without exception drops its transaction
ExitCall_NeverCommit(exception, marked) == "delete_transaction"

\* Transaction.__exit__: which call closes the transaction
ExitCall(exception, marked) ==
  IF exception # "none" THEN "delete_transaction"
  ELSE IF marked THEN "commit_transaction" ELSE "delete_transaction"

\* What is left of an attempt: the transaction it opened (0: none), how the
\* with statement was left, the exception __exit__ was entered with, and the
\* call __exit__ closed the transaction with
Summary(outcome, closed) ==
  [ txn       |-> txn.id,
    outcome   |-> outcome,
    exception |-> exc,
    closed    |-> closed ]

\* The locals of _do_reconcile and of the functions it calls are gone once the
\* with statement is left
NoLocals ==
  /\ service_idx' = 0
  /\ key_idx' = 0
  /\ existing_servers' = <<>>
  /\ slot_idx' = 0
  /\ extra_idx' = 0
  /\ servers' = <<>>
  /\ server_idx' = 0

\* An exception leaves the with statement: reconcile retries or re-raises it;
\* with no reconcile running (attempt = 0) it reaches the caller of the scope.
Raise(kind, closed, last) ==
  /\ history' = Append(history, Summary(kind, closed))
  /\ calls' = last
  /\ exc' = "none"
  /\ IF attempt > 0 /\ Retried(kind, attempt)
       THEN /\ attempt' = attempt + 1
            /\ txn' = NewTransaction
            /\ pc' = "enter"
            /\ result' = result
       ELSE /\ attempt' = attempt
            /\ txn' = txn
            /\ pc' = "done"
            /\ result' = kind

\* The with statement ends without an exception
Return(closed, last) ==
  /\ history' = Append(history, Summary("ok", closed))
  /\ calls' = last
  /\ exc' = "none"
  /\ attempt' = attempt
  /\ txn' = txn
  /\ pc' = "done"
  /\ result' = "returned"

\* A call in the body of the with statement raises: __exit__ runs next
BodyRaises(kind) ==
  /\ exc' = kind
  /\ pc' = "exit"
  /\ UNCHANGED <<txn, attempt, result, history, service_idx, key_idx, serviceVars,
                 removedVars>>

\* _do_reconcile: where the body starts, and where it goes on after a service
\* or a key is done
BodyStart ==
  IF attempt = 0 THEN [pc |-> "body", service_idx |-> 0, key_idx |-> 0]
  ELSE IF changed_services # <<>>
    THEN [pc |-> "ensure_backend", service_idx |-> 1, key_idx |-> 0]
  ELSE IF removed_keys # <<>>
    THEN [pc |-> "disable_get_backend", service_idx |-> 0, key_idx |-> 1]
  ELSE [pc |-> "exit", service_idx |-> 0, key_idx |-> 0]

AfterService ==
  IF service_idx < Len(changed_services)
    THEN [pc |-> "ensure_backend", service_idx |-> service_idx + 1, key_idx |-> 0]
  ELSE IF removed_keys # <<>>
    THEN [pc |-> "disable_get_backend", service_idx |-> service_idx, key_idx |-> 1]
  ELSE [pc |-> "exit", service_idx |-> service_idx, key_idx |-> 0]

AfterKey ==
  IF key_idx < Len(removed_keys)
    THEN [pc |-> "disable_get_backend", service_idx |-> service_idx, key_idx |-> key_idx + 1]
  ELSE [pc |-> "exit", service_idx |-> service_idx, key_idx |-> key_idx]

\* _reconcile_service returned: txn.mark_changed(), then the next loop turn
FinishService ==
  /\ txn' = [txn EXCEPT !._changed = TRUE]
  /\ pc' = AfterService.pc
  /\ service_idx' = AfterService.service_idx
  /\ key_idx' = AfterService.key_idx
  /\ UNCHANGED <<attempt, result, history, exc>>

\* _disable_all_servers returned: txn.mark_changed(), then the next loop turn
FinishKey ==
  /\ txn' = [txn EXCEPT !._changed = TRUE]
  /\ pc' = AfterKey.pc
  /\ service_idx' = AfterKey.service_idx
  /\ key_idx' = AfterKey.key_idx
  /\ UNCHANGED <<attempt, result, history, exc>>

\* The calls of the attempt are kept until the with statement is left; the
\* summary in history then names the call that closed the transaction.

\* The step stays inside the current service or key
Continue(next) ==
  /\ pc' = next
  /\ UNCHANGED <<txn, attempt, result, history, exc, service_idx, key_idx>>

-----------------------------------------------------------------------------
(* Transaction.__enter__ *)

\* client.get_configuration_version()
GetConfigurationVersion ==
  /\ pc = "enter"
  /\ \E r \in Answers("ok") :
       /\ faults' = Charged("ok", r)
       /\ IF r = "ok"
            THEN /\ calls' = <<Call("get_configuration_version", 0, "", "", NoData, r)>>
                 /\ txn' = [txn EXCEPT !.version = lb.version]
                 /\ pc' = "create_transaction"
                 /\ UNCHANGED <<attempt, result, history, exc>>
            ELSE Raise(r, "none", <<>>)
  /\ UNCHANGED <<cfg, lb, txns, inputVars, service_idx, key_idx, serviceVars, removedVars>>
  /\ UNCHANGED <<daemonVars, callVars>>

\* client.create_transaction(version): the transaction is rooted at the version
\* passed; a version that is not the current one is refused with 409
CreateTransaction ==
  /\ pc = "create_transaction"
  /\ LET organic == IF txn.version = lb.version THEN "ok" ELSE "conflict"
         id == Len(txns) + 1
     IN  \E r \in Answers(organic) :
           /\ faults' = Charged(organic, r)
           /\ IF r = "ok"
                THEN /\ calls' = Append(calls, Call("create_transaction", id, "", "", NoData, r))
                     /\ txns' = Append(txns, [ status   |-> "in_progress",
                                               version  |-> txn.version,
                                               backends |-> lb.backends,
                                               servers  |-> lb.servers ])
                     /\ txn' = [txn EXCEPT !.id = id]
                     /\ pc' = BodyStart.pc
                     /\ service_idx' = BodyStart.service_idx
                     /\ key_idx' = BodyStart.key_idx
                     /\ UNCHANGED <<attempt, result, history, exc>>
                ELSE /\ Raise(r, "none", <<>>)
                     /\ UNCHANGED <<txns, service_idx, key_idx>>
  /\ UNCHANGED <<cfg, lb, inputVars, serviceVars, removedVars>>
  /\ UNCHANGED <<daemonVars, callVars>>

-----------------------------------------------------------------------------
(* Transaction.__exit__ *)

\* client.commit_transaction(id): applies the staged configuration when the
\* transaction's version is still the current one, 409 otherwise
CommitTransaction ==
  /\ pc = "exit"
  /\ ExitCall(exc, txn._changed) = "commit_transaction"
  /\ LET organic == IF txns[txn.id].version = lb.version THEN "ok" ELSE "conflict"
     IN  \E r \in Answers(organic) :
           /\ faults' = Charged(organic, r)
           /\ IF r = "ok"
                THEN /\ lb' = [ version  |-> lb.version + 1,
                                backends |-> Staged.backends,
                                servers  |-> Staged.servers ]
                     /\ txns' = Closed("success")
                     /\ Return("commit_transaction", <<>>)
                ELSE /\ lb' = lb
                     /\ txns' = Closed(IF r = "conflict" THEN "outdated" ELSE "in_progress")
                     /\ Raise(r, "commit_transaction", <<>>)
  /\ NoLocals
  /\ UNCHANGED <<cfg, inputVars>>
  /\ UNCHANGED <<daemonVars, callVars>>

\* Transaction._safe_delete: client.delete_transaction(id), a DataplaneAPIError
\* (a 409 is one) is swallowed; then the exception in flight, if any, goes on
DeleteTransaction ==
  /\ pc = "exit"
  /\ ExitCall(exc, txn._changed) = "delete_transaction"
  /\ \E r \in Answers("ok") :
       LET last == <<Call("delete_transaction", txn.id, "", "", NoData, r)>>
       IN  /\ faults' = Charged("ok", r)
           /\ txns' = Closed(IF r = "ok" THEN "deleted" ELSE "in_progress")
           /\ IF exc # "none" THEN Raise(exc, "delete_transaction", last)
              ELSE Return("delete_transaction", last)
  /\ NoLocals
  /\ UNCHANGED <<cfg, lb, inputVars>>
  /\ UNCHANGED <<daemonVars, callVars>>


-----------------------------------------------------------------------------
(* Reconciler._reconcile_service *)

CurrentService == changed_services[service_idx]

ServiceBackend ==
  backend_name(CurrentService, cfg.backend.name_prefix, cfg.backend.name_separator)

total_slots == calculate_slots(cfg.server_slots, active_count(CurrentService))

slot_names == generate_server_names(total_slots[1])

active_instances == SortedById(CurrentService.instances)

\* The data written to slot number i (1-based)
SlotData(i) ==
  IF i <= Len(active_instances)
    THEN _active_server_data(cfg, slot_names[i], active_instances[i].private_ip,
                             effective_port(active_instances[i]), active_instances[i])
    ELSE _maintenance_server_data(slot_names[i])

\* Faulty variant: every slot is created
SlotCall_AlwaysCreate(slot_name, existing) == "create_server"

\* The call that writes a slot
SlotCall(slot_name, existing) ==
  IF slot_name \in Range(existing) THEN "replace_server" ELSE "create_server"

\* Faulty variant: no existing server is removed
IsExtra_Never(name, slots) == FALSE

\* Is an existing server removed after the slots are written?
IsExtra(name, slots) == name \notin Range(slots)

\* First index >= from of an existing server that is removed, 0 when none is
RECURSIVE NextExtra(_, _, _)
NextExtra(existing, slots, from) ==
  IF from > Len(existing) THEN 0
  ELSE IF IsExtra(existing[from], slots) THEN from
  ELSE NextExtra(existing, slots, from + 1)

\* Faulty variant: create_backend is called whatever get_backend answered
MustCreateBackend_Always(existing) == TRUE

\* _ensure_backend: is create_backend called after get_backend answered?
MustCreateBackend(existing) == existing = None

\* After _ensure_backend: calculate_slots, which may raise, then list_servers
AfterEnsure ==
  IF total_slots = None THEN BodyRaises("error")
  ELSE /\ Continue("list_servers")
       /\ UNCHANGED <<serviceVars, removedVars>>

\* After the slot loop: the delete loop, or the end of _reconcile_service
AfterSlots(existing) ==
  LET first == NextExtra(existing, slot_names, 1)
  IN  IF first = 0
        THEN FinishService /\ extra_idx' = 0
        ELSE Continue("delete_extra") /\ extra_idx' = first

\* _ensure_backend: client.get_backend(name, txn.id)
EnsureGetBackend ==
  /\ pc = "ensure_backend"
  /\ \E r \in Answers("ok") :
       LET existing == StoredBackend(Staged, ServiceBackend)
           status == IF r = "ok" /\ existing = None THEN "absent" ELSE r
       IN  /\ faults' = Charged("ok", r)
           /\ calls' = Append(calls, Call("get_backend", txn.id, ServiceBackend, "", NoData, status))
           /\ IF r # "ok" THEN BodyRaises(r)
              ELSE IF MustCreateBackend(existing)
                THEN Continue("create_backend") /\ UNCHANGED <<serviceVars, removedVars>>
                ELSE AfterEnsure
  /\ UNCHANGED <<cfg, lb, txns, inputVars>>
  /\ UNCHANGED <<daemonVars, callVars>>

\* _ensure_backend: client.create_backend(backend_data, txn.id)
CreateBackend ==
  /\ pc = "create_backend"
  /\ LET data == backend_data(cfg, ServiceBackend, CurrentService.service_name)
         organic == WriteStatus(Staged, "create_backend", data.name, "")
     IN  \E r \in Answers(organic) :
           /\ faults' = Charged(organic, r)
           /\ calls' = Append(calls, Call("create_backend", txn.id, data.name, "", data, r))
           /\ IF r = "ok"
                THEN txns' = Stage(WithBackend(Staged, data)) /\ AfterEnsure
                ELSE txns' = txns /\ BodyRaises(r)
  /\ UNCHANGED <<cfg, lb, inputVars>>
  /\ UNCHANGED <<daemonVars, callVars>>

\* client.list_servers(backend_name, txn.id), then the first turn of the slot loop
ListServers ==
  /\ pc = "list_servers"
  /\ LET organic == IF StoredBackend(Staged, ServiceBackend) = None THEN "error" ELSE "ok"
         listed == ServerNames(StoredServers(Staged, ServiceBackend))
     IN  \E r \in Answers(organic) :
           /\ faults' = Charged(organic, r)
           /\ calls' = Append(calls, Call("list_servers", txn.id, ServiceBackend, "",
                                       Listing(listed, r), r))
           /\ IF r # "ok" THEN BodyRaises(r)
              ELSE /\ existing_servers' = listed
                   /\ UNCHANGED removedVars
                   /\ IF Len(slot_names) > 0
                        THEN Continue("slots") /\ slot_idx' = 1 /\ extra_idx' = 0
                        ELSE AfterSlots(listed) /\ slot_idx' = 0
  /\ UNCHANGED <<cfg, lb, txns, inputVars>>
  /\ UNCHANGED <<daemonVars, callVars>>

\* One turn of the slot loop, common to both calls
WriteSlot(op) ==
  /\ pc = "slots"
  /\ SlotCall(slot_names[slot_idx], existing_servers) = op
  /\ LET name == slot_names[slot_idx]
         data == SlotData(slot_idx)
         organic == WriteStatus(Staged, op, ServiceBackend, name)
     IN  \E r \in Answers(organic) :
           /\ faults' = Charged(organic, r)
           /\ calls' = Append(calls, Call(op, txn.id, ServiceBackend, name, data, r))
           /\ IF r # "ok" THEN txns' = txns /\ BodyRaises(r)
              ELSE /\ txns' = Stage(IF op = "replace_server"
                                      THEN WithServerReplaced(Staged, ServiceBackend, name, data)
                                      ELSE WithServer(Staged, ServiceBackend, data))
                   /\ UNCHANGED <<existing_servers, removedVars>>
                   /\ IF slot_idx < Len(slot_names)
                        THEN Continue("slots") /\ slot_idx' = slot_idx + 1 /\ extra_idx' = 0
                        ELSE AfterSlots(existing_servers) /\ slot_idx' = slot_idx
  /\ UNCHANGED <<cfg, lb, inputVars>>
  /\ UNCHANGED <<daemonVars, callVars>>

\* client.replace_server(slot_name, backend_name, server_data, txn.id)
ReplaceSlot == WriteSlot("replace_server")

\* client.create_server(backend_name, server_data, txn.id)
CreateSlot == WriteSlot("create_server")

\* client.delete_server(name, backend_name, txn.id) for an extra server
DeleteExtra ==
  /\ pc = "delete_extra"
  /\ LET name == existing_servers[extra_idx]
         organic == WriteStatus(Staged, "delete_server", ServiceBackend, name)
         next == NextExtra(existing_servers, slot_names, extra_idx + 1)
     IN  \E r \in Answers(organic) :
           /\ faults' = Charged(organic, r)
           /\ calls' = Append(calls, Call("delete_server", txn.id, ServiceBackend, name, NoData, r))
           /\ IF r # "ok" THEN txns' = txns /\ BodyRaises(r)
              ELSE /\ txns' = Stage(WithoutServer(Staged, ServiceBackend, name))
                   /\ UNCHANGED <<existing_servers, slot_idx, removedVars>>
                   /\ IF next = 0
                        THEN FinishService /\ extra_idx' = extra_idx
                        ELSE Continue("delete_extra") /\ extra_idx' = next
  /\ UNCHANGED <<cfg, lb, inputVars>>
  /\ UNCHANGED <<daemonVars, callVars>>

-----------------------------------------------------------------------------
(* Reconciler._disable_all_servers *)

RemovedBackend == _backend_name_from_key(cfg, removed_keys[key_idx])

\* client.get_backend(backend_name, txn.id); None: nothing to disable
DisableGetBackend ==
  /\ pc = "disable_get_backend"
  /\ \E r \in Answers("ok") :
       LET backend == StoredBackend(Staged, RemovedBackend)
           status == IF r = "ok" /\ backend = None THEN "absent" ELSE r
       IN  /\ faults' = Charged("ok", r)
           /\ calls' = Append(calls, Call("get_backend", txn.id, RemovedBackend, "", NoData, status))
           /\ IF r # "ok" THEN BodyRaises(r)
              ELSE /\ UNCHANGED <<serviceVars, removedVars>>
                   /\ IF backend = None THEN FinishKey ELSE Continue("disable_list_servers")
  /\ UNCHANGED <<cfg, lb, txns, inputVars>>
  /\ UNCHANGED <<daemonVars, callVars>>

\* client.list_servers(backend_name, txn.id); empty: nothing to disable
DisableListServers ==
  /\ pc = "disable_list_servers"
  /\ LET listed == ServerNames(StoredServers(Staged, RemovedBackend))
     IN  \E r \in Answers("ok") :
           /\ faults' = Charged("ok", r)
           /\ calls' = Append(calls, Call("list_servers", txn.id, RemovedBackend, "",
                                       Listing(listed, r), r))
           /\ IF r # "ok" THEN BodyRaises(r)
              ELSE /\ servers' = listed
                   /\ UNCHANGED serviceVars
                   /\ IF listed = <<>>
                        THEN FinishKey /\ server_idx' = 0
                        ELSE Continue("disable_server") /\ server_idx' = 1
  /\ UNCHANGED <<cfg, lb, txns, inputVars>>
  /\ UNCHANGED <<daemonVars, callVars>>

\* Faulty variant: the backend of the removed key is deleted
DisableRequest_DeletesBackend(conf, backend, name) ==
  [conf EXCEPT !.backends[backend] = None]

\* What _disable_all_servers asks for one server of the backend: the server
\* is replaced by its maintenance form
DisableRequest(conf, backend, name) ==
  WithServerReplaced(conf, backend, name, _maintenance_server_data(name))

\* client.replace_server(server["name"], backend_name, maintenance data, txn.id)
DisableServer ==
  /\ pc = "disable_server"
  /\ LET name == servers[server_idx]
         data == _maintenance_server_data(name)
         organic == WriteStatus(Staged, "replace_server", RemovedBackend, name)
     IN  \E r \in Answers(organic) :
           /\ faults' = Charged(organic, r)
           /\ calls' = Append(calls, Call("replace_server", txn.id, RemovedBackend, name, data, r))
           /\ IF r # "ok" THEN txns' = txns /\ BodyRaises(r)
              ELSE /\ txns' = Stage(DisableRequest(Staged, RemovedBackend, name))
                   /\ UNCHANGED <<serviceVars, servers>>
                   /\ IF server_idx < Len(servers)
                        THEN Continue("disable_server") /\ server_idx' = server_idx + 1
                        ELSE FinishKey /\ server_idx' = server_idx
  /\ UNCHANGED <<cfg, lb, inputVars>>
  /\ UNCHANGED <<daemonVars, callVars>>


-----------------------------------------------------------------------------
(* Reconciler.reconcile: the call and its arguments *)

\* The services the cycles of the model discover for the two keys
Small == Service(Key1, DiscoveryOrder(3))
Large == Service(Key1, DiscoveryOrder(MaxInstances))
Other == Service(Key2, DiscoveryOrder(1))

\* <<changed_services, removed_keys>> as a cycle hands them over; the keys of
\* the two lists are disjoint (change_detector.py)
ReconcileInputs ==
  { << <<>>, <<>> >>,
    << <<Small, Other>>, <<>> >>,
    << <<Large>>, <<Key2>> >>,
    << <<>>, <<Key2, Key1>> >> }

\* reconcile(changed_services, removed_keys) up to the first Dataplane call,
\* called directly (no polling loop is running)
Reconcile ==
  /\ at = "idle"
  /\ pc \in {"idle", "done"}
  /\ lb.version < MaxVersion
  /\ \E input \in ReconcileInputs :
       /\ changed_services' = input[1]
       /\ removed_keys' = input[2]
       /\ IF input[1] = <<>> /\ input[2] = <<>>
            THEN pc' = "done" /\ attempt' = 0 /\ result' = "returned"
            ELSE pc' = "enter" /\ attempt' = 1 /\ result' = "none"
  /\ txn' = NewTransaction
  /\ exc' = "none"
  /\ txns' = <<>>
  /\ calls' = <<>>
  /\ history' = <<>>
  /\ faults' = 0
  /\ NoLocals
  /\ UNCHANGED <<cfg, lb>>
  /\ UNCHANGED <<daemonVars, callVars>>

-----------------------------------------------------------------------------
(* Another writer of the same Dataplane API (an operator, another tool) *)

ManualServer(name) ==
  [name |-> name, address |-> "192.168.0.9", port |-> 80,
   maintenance |-> "disabled", check |-> "enabled"]

\* A backend of Key1 made by hand before the daemon ran: one server under a
\* slot name and one under a name of the operator's own
HandMade ==
  LET b == _backend_name_from_key([backend |-> BackendCfg], Key1)
  IN  WithServer(WithServer(WithBackend(EmptyConfiguration,
                                        [name |-> b, mode |-> "http",
                                         balance |-> [algorithm |-> "leastconn"]]),
                            b, ManualServer("manual")),
                 b, ManualServer(server_name(2)))

InitialConfigurations == {EmptyConfiguration, HandMade}

\* The other writer commits while an attempt is running.  The body of the
\* attempt works on its staged copy, so a commit anywhere after the version
\* was read is seen at create_transaction, and one anywhere after that at
\* commit_transaction: the model places it right before those two calls.
ExternalCommit ==
  /\ pc \in {"create_transaction", "exit"}
  /\ lb.version + 1 < MaxVersion
  /\ txn.version = lb.version
  /\ lb' = [lb EXCEPT !.version = @ + 1]
  /\ UNCHANGED <<cfg, txns, pc, inputVars, attempt, txn, exc, result, service_idx,
                 key_idx, serviceVars, removedVars, calls, history, faults>>
  /\ UNCHANGED <<daemonVars, callVars>>

-----------------------------------------------------------------------------
(* A Transaction used directly: with Transaction(client) as txn: <body> *)

\* The with statement is reached
With ==
  /\ pc \in {"idle", "done"}
  /\ lb.version < MaxVersion
  /\ pc' = "enter"
  /\ attempt' = 0
  /\ result' = "none"
  /\ txn' = NewTransaction
  /\ exc' = "none"
  /\ txns' = <<>>
  /\ calls' = <<>>
  /\ history' = <<>>
  /\ faults' = 0
  /\ UNCHANGED <<cfg, lb, inputVars, service_idx, key_idx, serviceVars, removedVars>>
  /\ UNCHANGED <<daemonVars, callVars>>

BodyFrame == UNCHANGED <<cfg, lb, inputVars>>

\* txn.mark_changed()
BodyMarkChanged ==
  /\ pc = "body"
  /\ txn' = [txn EXCEPT !._changed = TRUE]
  /\ UNCHANGED <<txns, pc, attempt, exc, result, service_idx, key_idx, serviceVars,
                 removedVars, calls, history, faults>>
  /\ BodyFrame
  /\ UNCHANGED <<daemonVars, callVars>>

\* A write through txn.client: the backend when it is missing, else one more server
BodyCall ==
  /\ pc = "body"
  /\ Len(calls) < MaxBody + 2
  /\ \E b \in BackendNames :
       LET missing == StoredBackend(Staged, b) = None
           op == IF missing THEN "create_backend" ELSE "create_server"
           name == IF missing THEN "" ELSE server_name(Len(StoredServers(Staged, b)) + 1)
           data == IF missing THEN backend_data(cfg, b, "") ELSE _maintenance_server_data(name)
           organic == WriteStatus(Staged, op, b, name)
       IN  \E r \in Answers(organic) :
             /\ faults' = Charged(organic, r)
             /\ calls' = Append(calls, Call(op, txn.id, b, name, data, r))
             /\ IF r # "ok" THEN txns' = txns /\ BodyRaises(r)
                ELSE /\ txns' = Stage(IF missing THEN WithBackend(Staged, data)
                                      ELSE WithServer(Staged, b, data))
                     /\ Continue("body")
                     /\ UNCHANGED <<serviceVars, removedVars>>
  /\ BodyFrame
  /\ UNCHANGED <<daemonVars, callVars>>

\* The body raises an exception of its own (not a DataplaneAPIError)
BodyRaise ==
  /\ pc = "body"
  /\ BodyRaises("other")
  /\ UNCHANGED <<txns, calls, faults>>
  /\ BodyFrame
  /\ UNCHANGED <<daemonVars, callVars>>

\* The body ends
BodyEnd ==
  /\ pc = "body"
  /\ Continue("exit")
  /\ UNCHANGED <<txns, calls, faults, serviceVars, removedVars>>
  /\ BodyFrame
  /\ UNCHANGED <<daemonVars, callVars>>

-----------------------------------------------------------------------------
(* discovery/change_detector.py *)

\* DiscoveredService.key
ServiceKey(service) == <<service.service_name, service.service_port, service.region>>

\* The same instances seen again with another address, port, zone and tags
Readdressed(service) ==
  [service EXCEPT !.instances =
     [k \in DOMAIN @ |-> [@[k] EXCEPT !.private_ip = "10.9.0." \o ToString(k),
                                      !.instance_port = Some(7000),
                                      !.availability_zone = Some("3"),
                                      !.tags = [Name |-> <<"n", "e", "w">>]]]]

\* Instances under the same ids that were created anew
Recreated(service) ==
  [service EXCEPT !.instances =
     [k \in DOMAIN @ |-> [@[k] EXCEPT !.created_at = Some(20250100 + k)]]]

\* ChangeDetector._snapshot
_snapshot(service) ==
  [ instance_ids |-> {service.instances[k].instance_id : k \in DOMAIN service.instances},
    count        |-> active_count(service),
    timestamps   |-> {service.instances[k].created_at : k \in DOMAIN service.instances} ]

\* Faulty variant: every service seen before counts as changed
_has_changed_Always(prev, curr) == TRUE

\* Faulty variant: the creation times are not compared
_has_changed_NoTimestamps(prev, curr) ==
  \/ prev.count # curr.count
  \/ prev.instance_ids # curr.instance_ids

\* ChangeDetector._has_changed
_has_changed(prev, curr) ==
  \/ prev.count # curr.count
  \/ prev.instance_ids # curr.instance_ids
  \/ prev.timestamps # curr.timestamps

\* set(current_services.keys()), the dict being kept as the sequence of its values
CurrentKeys(current) == {ServiceKey(current[k]) : k \in DOMAIN current}

\* The orders in which a Python set can be iterated
Orderings(S) ==
  {order \in [1..Cardinality(S) -> S] :
     \A i, j \in 1..Cardinality(S) : order[i] = order[j] => i = j}

\* Faulty variant: only the services reported as changed are stored
StoredState_OnlyChanged(current, reported) ==
  [key \in CurrentKeys(reported) |->
     _snapshot(reported[CHOOSE k \in DOMAIN reported : ServiceKey(reported[k]) = key])]

\* detect: {key: self._snapshot(svc) for key, svc in current_services.items()}
StoredState(current, reported) ==
  [key \in CurrentKeys(current) |->
     _snapshot(current[CHOOSE k \in DOMAIN current : ServiceKey(current[k]) = key])]

\* Faulty variant: reset leaves the stored state alone
Cleared_Nothing(previous) == previous

\* ChangeDetector.reset: self._previous.clear()
Cleared(previous) == [key \in {} |-> _snapshot(Service(Key1, <<>>))]

-----------------------------------------------------------------------------
(* daemon.py *)

\* PollingConfig, in seconds
Polling ==
  [ interval_seconds |-> 5, jitter_seconds |-> 1,
    max_backoff_seconds |-> 4, backoff_base_seconds |-> 3 ]

\* What time.monotonic() - cycle_start can be, in half seconds
Elapsed == {6, 30}

\* What random.uniform(0, jitter_seconds) can be, in half seconds
Jitter == 0..(Polling.jitter_seconds * Second)

Min(a, b) == IF a <= b THEN a ELSE b

\* Faulty variant: the backoff is not capped
_calculate_sleep_NoCap(polling, failures, elapsed, jitter) ==
  LET backoff == polling.backoff_base_seconds * Second * Pow(2, failures - 1)
      base == IF failures > 0 THEN backoff ELSE polling.interval_seconds * Second
  IN  Max(0, base - elapsed + jitter)

\* Daemon._calculate_sleep, in half seconds
_calculate_sleep(polling, failures, elapsed, jitter) ==
  LET backoff == Min(polling.backoff_base_seconds * Second * Pow(2, failures - 1),
                     polling.max_backoff_seconds * Second)
      base == IF failures > 0 THEN backoff ELSE polling.interval_seconds * Second
  IN  Max(0, base - elapsed + jitter)

\* What discover_all, the tag filter and group_instances hand to detect in the
\* cycles of the model: dicts, as the sequence of their values
Discoveries ==
  { <<>>,
    <<Small>>,
    <<Readdressed(Small)>>,
    <<Recreated(Small)>>,
    <<Small, Other>>,
    <<Other, Service(Key1, DiscoveryOrder(2))>> }

\* The positions inside ChangeDetector.detect
DetectPcs == {"lookup", "compare", "store"}

\* The positions inside Daemon._cycle
CyclePcs == {"discover", "detect", "check", "reconcile"} \cup DetectPcs

\* Faulty variant: the loop does not look at the shutdown flag
LoopContinues_Always(shutdown) == TRUE

\* run: while not self._shutdown
LoopContinues(shutdown) == ~shutdown

\* Faulty variant: a cycle with removed keys only is not reconciled
MustReconcile_ChangedOnly(changed_list, removed_list) == changed_list # <<>>

\* _cycle: if changed or removed
MustReconcile(changed_list, removed_list) == changed_list # <<>> \/ removed_list # <<>>

\* Faulty variant: the sleep does not look at the shutdown flag
SleepContinues_ToTheEnd(shutdown, left) == left > 0

\* _interruptible_sleep: while not self._shutdown and time.monotonic() < end
SleepContinues(shutdown, left) == ~shutdown /\ left > 0

\* Faulty variant: what the cloud SDK raises is not caught
Caught_NotDiscovery(kind) == kind \in {"KeyError", "DataplaneAPIError"}

\* Faulty variant: only the errors of the Dataplane API are caught
Caught_OnlyDataplane(kind) == kind = "DataplaneAPIError"

\* run: except Exception.  The exceptions of a cycle: what the cloud SDK raises,
\* the KeyError of detect, what reconcile raises
Caught(kind) == kind \in {"CloudError", "KeyError", "DataplaneAPIError"}

\* The locals of _cycle and of detect are gone
NoCycleLocals ==
  /\ services' = <<>>
  /\ changed' = <<>>
  /\ removed' = <<>>
  /\ detect_idx' = 0

\* An exception leaves _cycle
CycleRaises(kind) ==
  /\ at' = IF Caught(kind) THEN "except" ELSE "crashed"
  /\ NoCycleLocals

observationVars == <<detected, same, entry, hup, obliged, reconciled, waited>>

\* The observations of a cycle end with it
NoCycleObservations ==
  /\ same' = FALSE
  /\ entry' = None
  /\ obliged' = "none"
  /\ reconciled' = FALSE

\* The part of the polling loop a position belongs to
Part(position) ==
  CASE position \in {"discover", "detect"} -> "discovery"
    [] position \in {"lookup", "compare", "store"} -> "detect"
    [] position \in {"check", "reconcile", "returned", "except"} -> "reconcile"
    [] OTHER -> "sleep"

\* run() is called on a daemon whose Reconciler has not been used: the signal
\* handlers are installed
Run ==
  /\ at = "idle"
  /\ pc = "idle"
  /\ at' = "loop"
  /\ UNCHANGED <<_shutdown, _consecutive_failures, _previous, services, changed,
                 removed, detect_idx, remaining, observationVars>>
  /\ UNCHANGED <<reconcilerVars, callVars>>

\* run: the test of the while loop; a cycle begins or run returns
LoopTest ==
  /\ at = "loop"
  /\ at' = IF LoopContinues(_shutdown) THEN "discover" ELSE "stopped"
  /\ UNCHANGED <<_shutdown, _consecutive_failures, _previous, services, changed,
                 removed, detect_idx, remaining, observationVars>>
  /\ UNCHANGED <<reconcilerVars, callVars>>

\* _cycle: discover_all, the tag filter and group_instances
Discover ==
  /\ at = "discover"
  /\ \/ /\ \E found \in Discoveries : services' = found
        /\ at' = "detect"
        /\ UNCHANGED <<changed, removed, detect_idx>>
     \/ /\ _consecutive_failures < MaxFailures
        /\ CycleRaises("CloudError")
  /\ UNCHANGED <<_shutdown, _consecutive_failures, _previous, remaining, observationVars>>
  /\ UNCHANGED <<reconcilerVars, callVars>>

\* detect: where the loop over current_services.items() goes on
DetectNext(k) == IF k > Len(services) THEN "store" ELSE "lookup"

\* detect, up to the loop over the current services: the removed keys
DetectStart ==
  /\ at = "detect"
  /\ changed' = <<>>
  /\ \E order \in Orderings(DOMAIN _previous \ CurrentKeys(services)) : removed' = order
  /\ detect_idx' = 1
  /\ at' = DetectNext(1)
  /\ same' = (detected = Some(services))
  /\ entry' = Some(_previous)
  /\ obliged' = hup
  /\ hup' = "none"
  /\ UNCHANGED <<_shutdown, _consecutive_failures, _previous, services, remaining,
                 detected, reconciled, waited>>
  /\ UNCHANGED <<reconcilerVars, callVars>>

\* detect: if key not in self._previous
DetectLookup ==
  /\ at = "lookup"
  /\ IF ServiceKey(services[detect_idx]) \notin DOMAIN _previous
       THEN /\ changed' = Append(changed, services[detect_idx])
            /\ detect_idx' = detect_idx + 1
            /\ at' = DetectNext(detect_idx + 1)
       ELSE /\ at' = "compare"
            /\ UNCHANGED <<changed, detect_idx>>
  /\ UNCHANGED <<_shutdown, _consecutive_failures, _previous, services, removed,
                 remaining, observationVars>>
  /\ UNCHANGED <<reconcilerVars, callVars>>

\* detect: prev = self._previous[key], a KeyError when the key is gone, and
\* _has_changed
DetectCompare ==
  /\ at = "compare"
  /\ LET service == services[detect_idx]
     IN  IF ServiceKey(service) \notin DOMAIN _previous
           THEN CycleRaises("KeyError")
           ELSE /\ changed' = IF _has_changed(_previous[ServiceKey(service)],
                                              _snapshot(service))
                                THEN Append(changed, service) ELSE changed
                /\ detect_idx' = detect_idx + 1
                /\ at' = DetectNext(detect_idx + 1)
                /\ UNCHANGED <<services, removed>>
  /\ UNCHANGED <<_shutdown, _consecutive_failures, _previous, remaining, observationVars>>
  /\ UNCHANGED <<reconcilerVars, callVars>>

\* detect: the stored state is replaced, the two lists are returned
DetectStore ==
  /\ at = "store"
  /\ _previous' = StoredState(services, changed)
  /\ at' = "check"
  /\ detected' = Some(services)
  /\ UNCHANGED <<_shutdown, _consecutive_failures, services, changed, removed,
                 detect_idx, remaining, same, entry, hup, obliged, reconciled, waited>>
  /\ UNCHANGED <<reconcilerVars, callVars>>

\* _cycle: if changed or removed
CheckChanges ==
  /\ at = "check"
  /\ IF MustReconcile(changed, removed)
       THEN at' = "reconcile" /\ reconciled' = TRUE
       ELSE at' = "returned" /\ reconciled' = reconciled
  /\ UNCHANGED <<_shutdown, _consecutive_failures, _previous, services, changed,
                 removed, detect_idx, remaining, detected, same, entry, hup, obliged,
                 waited>>
  /\ UNCHANGED <<reconcilerVars, callVars>>

\* _cycle: self._reconciler.reconcile(changed, removed) returns or raises
CycleReconcile ==
  /\ at = "reconcile"
  /\ \/ /\ at' = "returned"
        /\ UNCHANGED <<services, changed, removed, detect_idx>>
     \/ /\ _consecutive_failures < MaxFailures
        /\ CycleRaises("DataplaneAPIError")
  /\ UNCHANGED <<_shutdown, _consecutive_failures, _previous, remaining, observationVars>>
  /\ UNCHANGED <<reconcilerVars, callVars>>

\* run: _cycle returned, self._consecutive_failures = 0
CycleReturned ==
  /\ at = "returned"
  /\ _consecutive_failures' = 0
  /\ at' = "calculate_sleep"
  /\ NoCycleLocals
  /\ NoCycleObservations
  /\ UNCHANGED <<_shutdown, _previous, remaining, detected, hup, waited>>
  /\ UNCHANGED <<reconcilerVars, callVars>>

\* run: except Exception, self._consecutive_failures += 1
CycleFailed ==
  /\ at = "except"
  /\ _consecutive_failures' = _consecutive_failures + 1
  /\ at' = "calculate_sleep"
  /\ NoCycleObservations
  /\ UNCHANGED <<_shutdown, _previous, services, changed, removed, detect_idx,
                 remaining, detected, hup, waited>>
  /\ UNCHANGED <<reconcilerVars, callVars>>

\* run: sleep_time = self._calculate_sleep(elapsed); _interruptible_sleep: end
CalculateSleep ==
  /\ at = "calculate_sleep"
  /\ \E elapsed \in Elapsed, jitter \in Jitter :
       remaining' = _calculate_sleep(Polling, _consecutive_failures, elapsed, jitter)
  /\ waited' = 0
  /\ at' = "sleep"
  /\ UNCHANGED <<_shutdown, _consecutive_failures, _previous, services, changed,
                 removed, detect_idx, detected, same, entry, hup, obliged, reconciled>>
  /\ UNCHANGED <<reconcilerVars, callVars>>

\* _interruptible_sleep: the test of the while loop.  The clock is read once
\* per iteration: no time passes between the test and the subtraction.
SleepTest ==
  /\ at = "sleep"
  /\ IF SleepContinues(_shutdown, remaining)
       THEN at' = "slice" /\ remaining' = remaining
       ELSE at' = "loop" /\ remaining' = 0
  /\ UNCHANGED <<_shutdown, _consecutive_failures, _previous, services, changed,
                 removed, detect_idx, observationVars>>
  /\ UNCHANGED <<reconcilerVars, callVars>>

\* _interruptible_sleep: time.sleep(min(remaining, 1.0)); a signal handled
\* during the call does not shorten it
SleepSlice ==
  /\ at = "slice"
  /\ LET slice == Min(remaining, Second)
     IN  /\ remaining' = remaining - slice
         /\ waited' = IF _shutdown THEN waited + slice ELSE waited
  /\ at' = "sleep"
  /\ UNCHANGED <<_shutdown, _consecutive_failures, _previous, services, changed,
                 removed, detect_idx, detected, same, entry, hup, obliged, reconciled>>
  /\ UNCHANGED <<reconcilerVars, callVars>>

\* The handlers run between two steps of run(), wherever it is
Handling == at \notin {"idle", "stopped", "crashed"}

\* _handle_shutdown, on SIGTERM or SIGINT
SigTerm ==
  /\ Handling
  /\ ~_shutdown
  /\ _shutdown' = TRUE
  /\ UNCHANGED <<at, _consecutive_failures, _previous, services, changed, removed,
                 detect_idx, remaining, observationVars>>
  /\ UNCHANGED <<reconcilerVars, callVars>>

\* _handle_reload, on SIGHUP: ChangeDetector.reset()
SigHup ==
  /\ Handling
  /\ _consecutive_failures < MaxFailures
  /\ _previous' = Cleared(_previous)
  /\ hup' = Part(at)
  /\ detected' = None
  /\ same' = FALSE
  /\ entry' = IF at \in DetectPcs THEN None ELSE entry
  /\ UNCHANGED <<at, _shutdown, _consecutive_failures, services, changed, removed,
                 detect_idx, remaining, obliged, reconciled, waited>>
  /\ UNCHANGED <<reconcilerVars, callVars>>

-----------------------------------------------------------------------------
(* Specifications *)

\* All objects constructed, nothing called yet
Constructed ==
  /\ cfg \in Configs
  /\ \E conf \in InitialConfigurations : lb = [version |-> 1] @@ conf
  /\ txns = <<>>
  /\ pc = "idle"
  /\ changed_services = <<>>
  /\ removed_keys = <<>>
  /\ attempt = 0
  /\ txn = NewTransaction
  /\ exc = "none"
  /\ result = "none"
  /\ service_idx = 0
  /\ key_idx = 0
  /\ existing_servers = <<>>
  /\ slot_idx = 0
  /\ extra_idx = 0
  /\ servers = <<>>
  /\ server_idx = 0
  /\ calls = <<>>
  /\ history = <<>>
  /\ faults = 0
  /\ at = "idle"
  /\ _shutdown = FALSE
  /\ _consecutive_failures = 0
  /\ _previous = Cleared(<<>>)
  /\ services = <<>>
  /\ changed = <<>>
  /\ removed = <<>>
  /\ detect_idx = 0
  /\ remaining = 0
  /\ detected = None
  /\ same = FALSE
  /\ entry = None
  /\ hup = "none"
  /\ obliged = "none"
  /\ reconciled = FALSE
  /\ waited = 0

Init ==
  /\ Constructed
  /\ args = None
  /\ ret = None

\* The Reconciler against the Dataplane API
Next ==
  \/ Reconcile
  \/ GetConfigurationVersion
  \/ CreateTransaction
  \/ EnsureGetBackend
  \/ CreateBackend
  \/ ListServers
  \/ ReplaceSlot
  \/ CreateSlot
  \/ DeleteExtra
  \/ DisableGetBackend
  \/ DisableListServers
  \/ DisableServer
  \/ CommitTransaction
  \/ DeleteTransaction
  \/ ExternalCommit

Spec == Init /\ [][Next]_vars

\* The Transaction scope with an arbitrary body
NextTxn ==
  \/ With
  \/ GetConfigurationVersion
  \/ CreateTransaction
  \/ BodyMarkChanged
  \/ BodyCall
  \/ BodyRaise
  \/ BodyEnd
  \/ CommitTransaction
  \/ DeleteTransaction
  \/ ExternalCommit

SpecTxn == Init /\ [][NextTxn]_vars

\* The polling loop of the Daemon with its signal handlers; the cloud API and
\* the Reconciler are its environment
NextDaemon ==
  \/ Run
  \/ LoopTest
  \/ Discover
  \/ DetectStart
  \/ DetectLookup
  \/ DetectCompare
  \/ DetectStore
  \/ CheckChanges
  \/ CycleReconcile
  \/ CycleReturned
  \/ CycleFailed
  \/ CalculateSleep
  \/ SleepTest
  \/ SleepSlice
  \/ SigTerm
  \/ SigHup

\* The Reconciler the daemon holds is the environment here: one configuration
\* and one load balancer stand for all
InitDaemon ==
  /\ Init
  /\ cfg = CHOOSE c \in Configs : c.server_slots.growth_num >= c.server_slots.growth_den
  /\ lb = [version |-> 1] @@ EmptyConfiguration

SpecDaemon == InitDaemon /\ [][NextDaemon]_vars

\* The steps of the main thread: run() and what it calls
Progress ==
  \/ Run
  \/ LoopTest
  \/ Discover
  \/ DetectStart
  \/ DetectLookup
  \/ DetectCompare
  \/ DetectStore
  \/ CheckChanges
  \/ CycleReconcile
  \/ CycleReturned
  \/ CycleFailed
  \/ CalculateSleep
  \/ SleepTest
  \/ SleepSlice

\* The main thread keeps running: every call it makes returns or raises, and
\* the handlers of the signals return
FairDaemon == SpecDaemon /\ WF_vars(Progress)

\* The polling loop, or the Reconciler called directly
NextAll ==
  \/ Next
  \/ NextDaemon

SpecAll == InitDaemon /\ [][NextAll]_vars

-----------------------------------------------------------------------------
(* discovery/aws_client.py.  A machine is what the cloud API reports of an  *)
(* instance: its id, whether it is running, its private address (None, or   *)
(* Some(address), the address possibly empty) and its tags.  An account is  *)
(* the machines in the order describe_instances lists them and the Auto     *)
(* Scaling Groups with their tags and member ids.                           *)

SERVICE_NAME_TAG == "HAProxy:Service:Name"
SERVICE_PORT_TAG == "HAProxy:Service:Port"

\* `not value` for tags.get(...) and raw.get(...): absent or empty; empty is
\* "" for a text and <<>> for the characters of a number
Missing(value, empty) == value = None \/ value[1] = empty

\* AWSClient._parse_ec2_instance: Some(DiscoveredInstance), or None
_parse_ec2_instance(raw, source) ==
  LET service_name == TagGet(raw.tags, SERVICE_NAME_TAG)
      service_port_str == TagGet(raw.tags, SERVICE_PORT_TAG)
  IN  IF Missing(service_name, "") \/ Missing(service_port_str, <<>>) THEN None
      ELSE IF ParseInt(service_port_str[1]) = None THEN None
      ELSE IF Missing(raw.private_ip, "") THEN None
      ELSE Some([ instance_id  |-> raw.id,
                  private_ip   |-> raw.private_ip[1],
                  service_name |-> service_name[1],
                  service_port |-> ParseInt(service_port_str[1])[1],
                  source       |-> source,
                  tags         |-> raw.tags,
                  power_state  |-> "running" ])

\* The instances parsed from a describe_instances response, in its order
RECURSIVE Parsed(_, _)
Parsed(raws, source) ==
  IF raws = <<>> THEN <<>>
  ELSE LET inst == _parse_ec2_instance(Head(raws), source)
       IN  (IF inst = None THEN <<>> ELSE <<inst[1]>>) \o Parsed(Tail(raws), source)

\* AWSClient._discover_ec2: the API filters on the tag key and the state
_discover_ec2(account) ==
  LET Listed(raw) == SERVICE_NAME_TAG \in DOMAIN raw.tags /\ raw.running
  IN  Parsed(SelectSeq(account.machines, Listed), "ec2")

\* The member ids _discover_asg collects from the tagged groups
RECURSIVE MemberIds(_, _)
MemberIds(groups, known_ids) ==
  IF groups = <<>> THEN <<>>
  ELSE LET asg == Head(groups)
           New(iid) == iid \notin known_ids
       IN  (IF SERVICE_NAME_TAG \in DOMAIN asg.tags
              THEN SelectSeq(asg.members, New) ELSE <<>>)
             \o MemberIds(Tail(groups), known_ids)

\* Faulty variant: the instances EC2 found are not skipped
_discover_asg_All(account, known_ids) ==
  LET asg_instance_ids == MemberIds(account.groups, {})
      Asked(raw) == raw.running /\ \E k \in 1..Len(asg_instance_ids) :
                                    asg_instance_ids[k] = raw.id
  IN  IF asg_instance_ids = <<>> THEN <<>>
      ELSE Parsed(SelectSeq(account.machines, Asked), "asg")

\* AWSClient._discover_asg: describe_instances answers with the running
\* machines among the ids asked for
_discover_asg(account, known_ids) ==
  LET asg_instance_ids == MemberIds(account.groups, known_ids)
      Asked(raw) == raw.running /\ \E k \in 1..Len(asg_instance_ids) :
                                    asg_instance_ids[k] = raw.id
  IN  IF asg_instance_ids = <<>> THEN <<>>
      ELSE Parsed(SelectSeq(account.machines, Asked), "asg")

\* AWSClient.discover_all
AWSClient_discover_all(account) ==
  LET ec2_instances == _discover_ec2(account)
      asg_instances == _discover_asg(account,
                         {ec2_instances[k].instance_id : k \in 1..Len(ec2_instances)})
  IN  ec2_instances \o asg_instances

-----------------------------------------------------------------------------
(* discovery/azure_client.py.  A subscription is the virtual machines and   *)
(* the scale sets (id, tags, instances) the compute API lists; running and  *)
(* private_ip of a machine are what _is_running_vm / _resolve_vm_ips and    *)
(* their scale-set counterparts find for it.                                *)

\* AzureClient._discover_vms
RECURSIVE _discover_vms(_)
_discover_vms(vms) ==
  IF vms = <<>> THEN <<>>
  ELSE LET vm == Head(vms)
           service_name == TagGet(vm.tags, SERVICE_NAME_TAG)
           service_port_str == TagGet(vm.tags, SERVICE_PORT_TAG)
           skipped == \/ Missing(service_name, "") \/ Missing(service_port_str, <<>>)
                      \/ ParseInt(service_port_str[1]) = None
                      \/ ~vm.running
                      \/ Missing(vm.private_ip, "")
       IN  (IF skipped THEN <<>>
            ELSE << [ instance_id  |-> vm.id,
                      private_ip   |-> vm.private_ip[1],
                      service_name |-> service_name[1],
                      service_port |-> ParseInt(service_port_str[1])[1],
                      source       |-> "vm",
                      tags         |-> vm.tags,
                      power_state  |-> "running" ] >>)
             \o _discover_vms(Tail(vms))

\* The loop of _discover_vmss over the instances of one scale set whose own
\* tags gave service_name and service_port
RECURSIVE ScaleSetInstances(_, _, _, _)
ScaleSetInstances(vmss, service_name, service_port, vm_instances) ==
  IF vm_instances = <<>> THEN <<>>
  ELSE LET vm_instance == Head(vm_instances)
           inst_tags == vm_instance.tags @@ vmss.tags      \* {**tags, **vm_instance.tags}
           inst_name == TagGet(inst_tags, SERVICE_NAME_TAG)
           inst_port_str == TagGet(inst_tags, SERVICE_PORT_TAG)
           inst_port == IF inst_port_str = None THEN Some(service_port)
                        ELSE ParseInt(inst_port_str[1])
       IN  (IF ~vm_instance.running \/ Missing(vm_instance.private_ip, "") THEN <<>>
            ELSE << [ instance_id  |-> vmss.id \o "/virtualMachines/"
                                        \o ToString(vm_instance.id),
                      private_ip   |-> vm_instance.private_ip[1],
                      service_name |-> IF inst_name = None THEN service_name
                                       ELSE inst_name[1],
                      service_port |-> IF inst_port = None THEN service_port
                                       ELSE inst_port[1],
                      source       |-> "vmss",
                      tags         |-> inst_tags,
                      power_state  |-> "running" ] >>)
             \o ScaleSetInstances(vmss, service_name, service_port, Tail(vm_instances))

\* AzureClient._discover_vmss
RECURSIVE _discover_vmss(_)
_discover_vmss(vmss_list) ==
  IF vmss_list = <<>> THEN <<>>
  ELSE LET vmss == Head(vmss_list)
           service_name == TagGet(vmss.tags, SERVICE_NAME_TAG)
           service_port_str == TagGet(vmss.tags, SERVICE_PORT_TAG)
           skipped == \/ Missing(service_name, "") \/ Missing(service_port_str, <<>>)
                      \/ ParseInt(service_port_str[1]) = None
       IN  (IF skipped THEN <<>>
            ELSE ScaleSetInstances(vmss, service_name[1],
                                   ParseInt(service_port_str[1])[1], vmss.instances))
             \o _discover_vmss(Tail(vmss_list))

\* AzureClient.discover_all
AzureClient_discover_all(subscription) ==
  _discover_vms(subscription.vms) \o _discover_vmss(subscription.scale_sets)

-----------------------------------------------------------------------------
(* haproxy/dataplane_client.py: the request a server call sends *)

\* DataplaneClient._txn_params
_txn_params(transaction_id) ==
  IF transaction_id # None /\ transaction_id[1] # ""
    THEN [transaction_id |-> transaction_id[1]] ELSE <<>>

\* DataplaneClient.list_servers / create_server / replace_server /
\* delete_server, down to session.request(method, url, params=...)
server_request(config, fn, backend, name, transaction_id) ==
  LET _base == config.base_url \o "/" \o config.api_version
      path == "/services/haproxy/configuration/servers"
                \o (IF fn \in {"replace_server", "delete_server"}
                      THEN "/" \o name ELSE "")
  IN  [ method |-> CASE fn = "list_servers" -> "GET"
                     [] fn = "create_server" -> "POST"
                     [] fn = "replace_server" -> "PUT"
                     [] OTHER -> "DELETE",
        url    |-> _base \o path,
        params |-> [backend |-> backend] @@ _txn_params(transaction_id) ]

-----------------------------------------------------------------------------
(* Functions called on their own: the arguments are drawn at the start, the *)
(* call returns in one step                                                 *)

\* PollingConfig values: the one of the polling loop above, one whose first
\* backoff is above the cap, and the defaults
PollingConfigs ==
  { Polling,
    [ interval_seconds |-> 5, jitter_seconds |-> 0,
      max_backoff_seconds |-> 2, backoff_base_seconds |-> 3 ],
    [ interval_seconds |-> 30, jitter_seconds |-> 5,
      max_backoff_seconds |-> 300, backoff_base_seconds |-> 5 ] }

\* _calculate_sleep(elapsed) on a daemon with the given configuration and
\* failure count; jitter is what random.uniform(0, jitter_seconds) returned
SleepInputs ==
  { [fn |-> "_calculate_sleep", polling |-> p, failures |-> f, elapsed |-> e,
     jitter |-> j] :
      p \in PollingConfigs, f \in 0..(MaxFailures + 1), e \in {0, 6, 30, 700},
      j \in {0, 1, 2, 10} }

\* growth_factor values config._validate lets through: -1, 0, 0.5, 1, 1.5, 2
GrowthFactors == {<<0 - 1, 1>>, <<0, 1>>, <<1, 2>>, <<1, 1>>, <<3, 2>>, <<2, 1>>}

\* ServerSlotsConfig values that pass validation (base >= 10, known growth_type)
ValidSlots ==
  { [ServerSlots(type, g[1], g[2]) EXCEPT !.base = b] :
      type \in {"linear", "exponential"}, g \in GrowthFactors,
      b \in {DefaultBase, DefaultBase + 1} }

\* SlotAllocator(slots).calculate_slots(active_count)
SlotInputs ==
  { [fn |-> "calculate_slots", slots |-> sl, active_count |-> n] :
      sl \in ValidSlots, n \in 0..MaxCount }

\* Faulty variant: one matching allowlist entry is enough
_matches_AnyAllowed(tags_config, instance) ==
  LET tags == instance.tags
  IN  IF \E key \in DOMAIN tags_config.denylist :
           TagGet(tags, key) = Some(tags_config.denylist[key])
        THEN FALSE
      ELSE \/ DOMAIN tags_config.allowlist = {}
           \/ \E key \in DOMAIN tags_config.allowlist :
                TagGet(tags, key) = Some(tags_config.allowlist[key])

\* TagFilter._matches: tags.get(key) is compared with the configured value
_matches(tags_config, instance) ==
  LET tags == instance.tags
  IN  IF \E key \in DOMAIN tags_config.denylist :
           TagGet(tags, key) = Some(tags_config.denylist[key])
        THEN FALSE
      ELSE IF \E key \in DOMAIN tags_config.allowlist :
           TagGet(tags, key) # Some(tags_config.allowlist[key])
        THEN FALSE
      ELSE TRUE

\* TagFilter.apply: the list comprehension keeps the order of the input
apply(tags_config, instances) ==
  LET Keep(inst) == _matches(tags_config, inst)
  IN  SelectSeq(instances, Keep)

\* TagsConfig values: no filter, one entry, two entries on either list
TagsConfigs ==
  { [allowlist |-> a, denylist |-> d] :
      a \in {<<>>, [env |-> "prod"], [env |-> "prod", team |-> "infra"]},
      d \in {<<>>, [skip |-> "true"], [skip |-> "true", deprecated |-> "yes"]} }

\* Tags of the instances the filter is applied to
TagSets ==
  { <<>>,
    [env |-> "prod"],
    [env |-> "prod", team |-> "infra"],
    [env |-> "prod", team |-> "dev", skip |-> "false"],
    [env |-> "prod", team |-> "infra", skip |-> "true"],
    [env |-> "staging", deprecated |-> "yes"] }

\* Lists of up to MaxListed instances with distinct ids and any of the tags
Listed ==
  UNION { { [k \in 1..n |-> [Instance(Key1, k) EXCEPT !.tags = t[k]]] :
              t \in [1..n -> TagSets] } : n \in 0..MaxListed }

\* TagFilter(tags_config).apply(instances)
FilterInputs ==
  { [fn |-> "apply", tags_config |-> c, instances |-> l] :
      c \in TagsConfigs, l \in Listed }

\* Reconciler(config)._active_server_data(name, address, port, instance), as
\* _reconcile_service calls it; the instances cover every combination of
\* zone and weight tag
ActiveInputs ==
  { [fn |-> "_active_server_data", config |-> c, name |-> server_name(i),
     instance |-> Instance(Key1, i)] :
      c \in Configs, i \in 1..(2 * MaxInstances) }

\* Reconciler._maintenance_server_data(name)
MaintenanceInputs ==
  { [fn |-> "_maintenance_server_data", name |-> server_name(i)] :
      i \in 1..MaxInstances }

\* Service keys that differ in the name, in the port only, in the region only
GroupKeys == {Key1, Key2, <<"app", 8081, "eastus">>, <<"app", 8080, "westus">>}

\* group_instances(instances): up to MaxListed instances with distinct ids
GroupInputs ==
  UNION { { [fn |-> "group_instances",
             instances |-> [k \in 1..n |-> Instance(keys[k], k)]] :
              keys \in [1..n -> GroupKeys] } : n \in 0..MaxListed }

\* What the cloud reports of a machine: as it should be, stopped, without an
\* address, with an empty address, and with a tag missing, empty or unparsable
Machine(id, kind) ==
  LET port == <<"8", "0", "8", "0">>
      Tagged(name, value) ==
        (SERVICE_NAME_TAG :> name) @@ (SERVICE_PORT_TAG :> value) @@ [Name |-> "vm"]
  IN  [ id         |-> id,
        running    |-> kind # "stopped",
        private_ip |-> CASE kind = "no address" -> None
                         [] kind = "empty address" -> Some("")
                         [] OTHER -> Some("10.0.0." \o ToString(id)),
        tags       |-> CASE kind = "no name" -> (SERVICE_PORT_TAG :> port)
                         [] kind = "empty name" -> Tagged("", port)
                         [] kind = "no port" -> (SERVICE_NAME_TAG :> "app")
                         [] kind = "bad port" -> Tagged("app", <<"a", "b", "c">>)
                         [] OTHER -> Tagged("app", port) ]

MachineKinds ==
  {"good", "stopped", "no address", "empty address", "no name", "empty name",
   "no port", "bad port"}

\* Two machines of any kind, listed in either order; each is a member of no
\* group, of the tagged group or of the untagged group
Accounts ==
  { [ machines |-> <<Machine(first, kinds[first]), Machine(3 - first, kinds[3 - first])>>,
      groups   |-> << [ tags    |-> (SERVICE_NAME_TAG :> "app"),
                        members |-> SelectSeq(<<1, 2>>, LAMBDA id : groups[id] = "tagged") ],
                      [ tags    |-> [Name |-> "other"],
                        members |-> SelectSeq(<<1, 2>>, LAMBDA id : groups[id] = "untagged") ] >> ] :
      first \in {1, 2}, kinds \in [{1, 2} -> MachineKinds],
      groups \in [{1, 2} -> {"none", "tagged", "untagged"}] }

\* Tags set on one instance of a scale set: none, another service name or
\* port, an empty name, a port that is no number
InstanceTags ==
  { <<>>,
    (SERVICE_NAME_TAG :> "web"),
    (SERVICE_NAME_TAG :> ""),
    (SERVICE_PORT_TAG :> <<"9", "0", "9", "0">>),
    (SERVICE_PORT_TAG :> <<"a", "b", "c">>) }

\* One virtual machine of any kind and one scale set of one instance
Subscriptions ==
  { [ vms        |-> <<Machine(1, kind)>>,
      scale_sets |-> << [ id        |-> "vmss1",
                          tags      |-> Machine(2, set_kind).tags,
                          instances |-> <<[Machine(2, inst_kind) EXCEPT !.tags = t]>> ] >> ] :
      kind \in MachineKinds, set_kind \in {"good", "no name", "bad port"},
      inst_kind \in {"good", "stopped", "no address"}, t \in InstanceTags }

\* AzureClient(...).discover_all() on a subscription
AzureInputs ==
  {[fn |-> "AzureClient.discover_all", subscription |-> sub] : sub \in Subscriptions}

\* A server call of a DataplaneClient built for either API version;
\* list_servers may be called without a transaction
ServerInputs ==
  { [fn |-> f, api_version |-> v, backend |-> b, name |-> server_name(i),
     transaction_id |-> t] :
      f \in {"list_servers", "create_server", "replace_server", "delete_server"},
      v \in {"v2", "v3"}, b \in BackendNames, i \in 1..2,
      t \in {None, Some("txn-1")} }

\* AWSClient(...).discover_all() on an account
AWSInputs == {[fn |-> "AWSClient.discover_all", account |-> a] : a \in Accounts}

CallInputs ==
  {a \in SleepInputs : a.jitter <= a.polling.jitter_seconds * Second}
    \cup SlotInputs \cup FilterInputs \cup ActiveInputs \cup MaintenanceInputs
    \cup GroupInputs \cup AWSInputs \cup AzureInputs
    \cup {a \in ServerInputs : a.transaction_id # None \/ a.fn = "list_servers"}

CalculateSleepCall ==
  /\ args # None
  /\ args.fn = "_calculate_sleep"
  /\ ret = None
  /\ ret' = Some(_calculate_sleep(args.polling, args.failures, args.elapsed, args.jitter))
  /\ UNCHANGED <<args, reconcilerVars, daemonVars>>

CalculateSlotsCall ==
  /\ args # None
  /\ args.fn = "calculate_slots"
  /\ ret = None
  /\ ret' = Some(calculate_slots(args.slots, args.active_count))
  /\ UNCHANGED <<args, reconcilerVars, daemonVars>>

ApplyCall ==
  /\ args # None
  /\ args.fn = "apply"
  /\ ret = None
  /\ ret' = Some(apply(args.tags_config, args.instances))
  /\ UNCHANGED <<args, reconcilerVars, daemonVars>>

ActiveServerDataCall ==
  /\ args # None
  /\ args.fn = "_active_server_data"
  /\ ret = None
  /\ ret' = Some(_active_server_data(args.config, args.name, args.instance.private_ip,
                                     effective_port(args.instance), args.instance))
  /\ UNCHANGED <<args, reconcilerVars, daemonVars>>

MaintenanceServerDataCall ==
  /\ args # None
  /\ args.fn = "_maintenance_server_data"
  /\ ret = None
  /\ ret' = Some(_maintenance_server_data(args.name))
  /\ UNCHANGED <<args, reconcilerVars, daemonVars>>

GroupInstancesCall ==
  /\ args # None
  /\ args.fn = "group_instances"
  /\ ret = None
  /\ ret' = Some(group_instances(args.instances))
  /\ UNCHANGED <<args, reconcilerVars, daemonVars>>

AWSDiscoverAllCall ==
  /\ args # None
  /\ args.fn = "AWSClient.discover_all"
  /\ ret = None
  /\ ret' = Some(AWSClient_discover_all(args.account))
  /\ UNCHANGED <<args, reconcilerVars, daemonVars>>

AzureDiscoverAllCall ==
  /\ args # None
  /\ args.fn = "AzureClient.discover_all"
  /\ ret = None
  /\ ret' = Some(AzureClient_discover_all(args.subscription))
  /\ UNCHANGED <<args, reconcilerVars, daemonVars>>

ServerRequestCall ==
  /\ args # None
  /\ args.fn \in {"list_servers", "create_server", "replace_server", "delete_server"}
  /\ ret = None
  /\ ret' = Some(server_request([base_url |-> "http://localhost:5555",
                                 api_version |-> args.api_version],
                                args.fn, args.backend, args.name, args.transaction_id))
  /\ UNCHANGED <<args, reconcilerVars, daemonVars>>

InitCalls ==
  /\ Constructed
  /\ cfg = CHOOSE c \in Configs : c.server_slots.growth_num >= c.server_slots.growth_den
  /\ lb = [version |-> 1] @@ EmptyConfiguration
  /\ args \in CallInputs
  /\ ret = None

NextCalls ==
  \/ CalculateSleepCall
  \/ CalculateSlotsCall
  \/ ApplyCall
  \/ ActiveServerDataCall
  \/ MaintenanceServerDataCall
  \/ GroupInstancesCall
  \/ AWSDiscoverAllCall
  \/ AzureDiscoverAllCall
  \/ ServerRequestCall

SpecCalls == InitCalls /\ [][NextCalls]_vars

-----------------------------------------------------------------------------
(* Observations the properties are stated on *)

\* A reconcile call with a non-empty input is running / has ended
Running == attempt > 0 /\ pc \notin {"idle", "done"}
Finished == attempt > 0 /\ pc = "done"

\* The with-body is running or has run: the transaction of the attempt is open
InScope == pc \notin {"idle", "done", "enter", "create_transaction"}

LastAttempt == history[Len(history)]

Conflicts == {i \in 1..Len(history) : history[i].outcome = "conflict"}

-----------------------------------------------------------------------------
(* Retry and transaction discipline *)

\* C1: reconcile with a non-empty input makes at most 3 attempts; an attempt
\* is repeated only after a version conflict; three conflicting attempts make
\* reconcile raise the conflict after exactly 3 attempts; an attempt that ends
\* without exception after at most 2 conflicting ones makes reconcile return.
C1_RetryBound ==
  /\ attempt <= 3
  /\ Len(history) <= 3
  /\ Running => /\ Len(history) = attempt - 1
                /\ Conflicts = 1..Len(history)
  /\ Finished =>
       /\ Len(history) = attempt
       /\ 1..(Len(history) - 1) \subseteq Conflicts
       /\ result = "conflict" <=> Conflicts = 1..3
       /\ result = "returned" <=> LastAttempt.outcome = "ok"
       /\ LastAttempt.outcome = "ok" => Cardinality(Conflicts) <= 2

\* Three attempts in a row conflicted, the last one at commit_transaction
C1_Witness ==
  /\ Finished
  /\ result = "conflict"
  /\ Len(history) = 3
  /\ LastAttempt.closed = "commit_transaction"

\* C2: a Dataplane call in the with-body that fails with an error other than
\* a version conflict ends reconcile: delete_transaction is called for the
\* open transaction, commit_transaction is not, no attempt follows and the
\* same error leaves reconcile.
C2_ErrorAborts ==
  /\ (Running /\ pc = "exit" /\ exc = "error") =>
       /\ calls[Len(calls)].status = "error"
       /\ txns[txn.id].status = "in_progress"
  /\ attempt > 0 =>
       \A i \in 1..Len(history) :
         history[i].exception = "error" =>
           /\ history[i].txn # 0
           /\ history[i].closed = "delete_transaction"
           /\ txns[history[i].txn].status \in {"deleted", "in_progress"}
           /\ i = Len(history)
           /\ pc = "done"
           /\ result = "error"

\* A write of the second changed service failed with an error
C2_Witness ==
  /\ Finished
  /\ result = "error"
  /\ LastAttempt.exception = "error"
  /\ txn._changed
  /\ txns[LastAttempt.txn].status = "deleted"

\* C3: a Transaction scope left without exception closes its transaction
\* with exactly one call: commit_transaction if mark_changed() was called in
\* the scope, delete_transaction otherwise; commit_transaction is never called
\* for a transaction without mark_changed().
C3_CommitIffChanged ==
  (pc = "done" /\ history # <<>> /\ LastAttempt.txn # 0) =>
    /\ LastAttempt.exception = "none" =>
         /\ LastAttempt.closed =
              (IF txn._changed THEN "commit_transaction" ELSE "delete_transaction")
         /\ txn._changed => txns[txn.id].status \in {"success", "outdated", "in_progress"}
         /\ ~txn._changed => txns[txn.id].status \in {"deleted", "in_progress"}
         /\ (txn._changed /\ LastAttempt.outcome = "ok") => txns[txn.id].status = "success"
    /\ LastAttempt.closed = "commit_transaction" => txn._changed
    /\ txns[txn.id].status \in {"success", "outdated"} => txn._changed

\* A scope whose body wrote but never called mark_changed() was left normally
C3_Witness ==
  /\ attempt = 0
  /\ pc = "done"
  /\ history # <<>>
  /\ LastAttempt.exception = "none"
  /\ LastAttempt.closed = "delete_transaction"
  /\ ~txn._changed
  /\ txns[txn.id].status = "deleted"

\* C4: an exception raised in a Transaction scope, even after mark_changed(),
\* makes __exit__ call delete_transaction once and never commit_transaction;
\* the exception reaches the caller unchanged, also when delete_transaction
\* itself fails with a DataplaneAPIError.
C4_ExceptionAborts ==
  /\ \A i \in 1..Len(history) :
       history[i].exception # "none" =>
         /\ history[i].closed = "delete_transaction"
         /\ history[i].outcome = history[i].exception
         /\ txns[history[i].txn].status \in {"deleted", "in_progress"}
  /\ (pc = "done" /\ history # <<>> /\ LastAttempt.exception # "none") =>
       result = LastAttempt.exception

\* The body raised after mark_changed() and delete_transaction failed too
C4_Witness ==
  /\ attempt = 0
  /\ pc = "done"
  /\ result = "other"
  /\ txn._changed
  /\ faults = 1
  /\ txns[txn.id].status = "in_progress"

\* C5: no step of the Reconciler removes or alters a backend of the load
\* balancer: a backend that exists keeps existing, unchanged, over every
\* sequence of reconcile calls, removals included.
C5_BackendsKept ==
  [][\A b \in BackendNames :
       lb.backends[b] # None => lb'.backends[b] = lb.backends[b]]_vars

\* A removal was committed: the backend is there, all its servers in maintenance
C5_Witness ==
  /\ Finished
  /\ result = "returned"
  /\ removed_keys # <<>>
  /\ LET b == _backend_name_from_key(cfg, removed_keys[Len(removed_keys)])
     IN  /\ lb.backends[b] # None
         /\ lb.servers[b] # <<>>
         /\ \A k \in 1..Len(lb.servers[b]) : lb.servers[b][k].maintenance = "enabled"

-----------------------------------------------------------------------------
(* What an attempt has sent for one changed service or one removed key *)

DisablePcs == {"disable_get_backend", "disable_list_servers", "disable_server"}

\* The j-th changed service has been handled by the running attempt
ServiceDone(j) ==
  /\ Running
  /\ InScope
  /\ \/ j < service_idx
     \/ j = service_idx /\ exc = "none" /\ pc \in DisablePcs \cup {"exit"}

\* The j-th removed key has been handled by the running attempt
KeyDone(j) ==
  /\ Running
  /\ InScope
  /\ \/ j < key_idx
     \/ j = key_idx /\ exc = "none" /\ pc = "exit"

ServiceBackendOf(j) ==
  backend_name(changed_services[j], cfg.backend.name_prefix, cfg.backend.name_separator)

KeyBackendOf(j) == _backend_name_from_key(cfg, removed_keys[j])

\* T of the j-th changed service
SlotsOf(j) == calculate_slots(cfg.server_slots, Len(changed_services[j].instances))[1]

SlotNamesOf(j) == {server_name(k) : k \in 1..SlotsOf(j)}

CallsOn(b) == SelectSeq(calls, LAMBDA c : c.backend = b)

WritesOn(b) ==
  SelectSeq(calls, LAMBDA c : c.backend = b /\ c.op \in {"create_server", "replace_server"})

DeletesOn(b) == SelectSeq(calls, LAMBDA c : c.backend = b /\ c.op = "delete_server")

\* The server names list_servers returned for the backend in this attempt
ListedOn(b) ==
  LET l == SelectSeq(calls, LAMBDA c : c.backend = b /\ c.op = "list_servers" /\ c.status = "ok")
  IN  l[1].data.servers

\* The instance that is k-th in ascending instance_id order
KthInstance(service, k) ==
  CHOOSE inst \in Range(service.instances) :
    Cardinality({o \in Range(service.instances) : o.instance_id < inst.instance_id}) = k - 1

-----------------------------------------------------------------------------
(* Removed keys and changed services *)

\* C6: for a removed key whose backend exists, the attempt sends one
\* replace_server per server listed in the backend, in the server's own name
\* and with the maintenance data, and no other write; for a removed key
\* without backend it sends no write at all.
C6_RemovedKeyDisabled ==
  \A j \in 1..Len(removed_keys) :
    KeyDone(j) =>
      LET b == KeyBackendOf(j)
          on == CallsOn(b)
          listed == ServerNames(lb.servers[b])
      IN  /\ on[1].op = "get_backend"
          /\ IF lb.backends[b] = None
               THEN Len(on) = 1 /\ on[1].status = "absent"
               ELSE /\ Len(on) = 2 + Len(listed)
                    /\ on[2].op = "list_servers"
                    /\ on[2].data.servers = listed
                    /\ \A k \in 1..Len(listed) :
                         on[2 + k] = [ op      |-> "replace_server",
                                       txn     |-> txn.id,
                                       backend |-> b,
                                       server  |-> listed[k],
                                       data    |-> [ name        |-> listed[k],
                                                     address     |-> "127.0.0.1",
                                                     port        |-> 80,
                                                     maintenance |-> "enabled",
                                                     check       |-> "disabled" ],
                                       status  |-> "ok" ]

\* Two removed keys were handled: one without backend, one with two servers
C6_Witness ==
  /\ Len(removed_keys) = 2
  /\ KeyDone(1)
  /\ KeyDone(2)
  /\ lb.backends[KeyBackendOf(1)] = None
  /\ lb.backends[KeyBackendOf(2)] # None
  /\ Len(lb.servers[KeyBackendOf(2)]) = 2
  /\ Len(calls) = 7

\* C7: once a changed service with n instances is handled, slot srvk carries
\* the k-th instance in ascending instance_id order as an active server
\* (address = private_ip, port = effective_port) for every k in 1..n, and
\* the slots srv(n+1)..srvT carry the maintenance placeholder.
C7_SlotStability ==
  \A j \in 1..Len(changed_services) :
    ServiceDone(j) =>
      LET service == changed_services[j]
          n == Len(service.instances)
          w == WritesOn(ServiceBackendOf(j))
      IN  /\ \A k \in 1..n :
               \E i \in 1..Len(w) :
                 LET inst == KthInstance(service, k)
                 IN  /\ w[i].server = server_name(k)
                     /\ w[i].status = "ok"
                     /\ w[i].data.name = server_name(k)
                     /\ w[i].data.address = inst.private_ip
                     /\ w[i].data.port = (IF inst.instance_port # None
                                            THEN inst.instance_port[1]
                                            ELSE inst.service_port)
                     /\ w[i].data.maintenance = "disabled"
          /\ \A k \in (n + 1)..SlotsOf(j) :
               \E i \in 1..Len(w) :
                 /\ w[i].server = server_name(k)
                 /\ w[i].data.address = "127.0.0.1"
                 /\ w[i].data.maintenance = "enabled"

\* C8: in one attempt every slot name srv1..srvT of a changed service gets
\* exactly one write, in slot order: replace_server if and only if the name
\* is among the servers list_servers returned in this attempt, create_server
\* otherwise; an empty backend gets T creates and no replace.
C8_OneWritePerSlot ==
  \A j \in 1..Len(changed_services) :
    (Running /\ InScope /\ j <= service_idx) =>
      LET b == ServiceBackendOf(j)
          w == WritesOn(b)
      IN  /\ Len(w) <= SlotsOf(j)
          /\ \A i \in 1..Len(w) :
               /\ w[i].server = server_name(i)
               /\ w[i].op = "replace_server" <=> server_name(i) \in Range(ListedOn(b))
               /\ w[i].status = "ok" \/ (i = Len(w) /\ j = service_idx /\ exc = w[i].status)
          /\ ServiceDone(j) =>
               /\ Len(w) = SlotsOf(j)
               /\ ListedOn(b) = <<>> => \A i \in 1..Len(w) : w[i].op = "create_server"

\* A service was handled whose backend held one slot name and another name
C8_Witness ==
  /\ changed_services # <<>>
  /\ ServiceDone(1)
  /\ LET w == WritesOn(ServiceBackendOf(1))
     IN  /\ w[1].op = "create_server"
         /\ w[2].op = "replace_server"
         /\ Len(ListedOn(ServiceBackendOf(1))) = 2

\* C9: handling a changed service deletes every server its backend holds
\* under a name outside srv1..srvT and no other; after a committed reconcile
\* the server names of the backend are exactly srv1..srvT, once each.
C9_ExtrasDeleted ==
  /\ \A j \in 1..Len(changed_services) :
       ServiceDone(j) =>
         LET b == ServiceBackendOf(j)
             d == DeletesOn(b)
             extra == Range(ListedOn(b)) \ SlotNamesOf(j)
         IN  /\ {d[i].server : i \in 1..Len(d)} = extra
             /\ Len(d) = Cardinality(extra)
             /\ \A i \in 1..Len(d) : d[i].status = "ok"
             /\ Range(ServerNames(Staged.servers[b])) = SlotNamesOf(j)
  /\ (Finished /\ result = "returned") =>
       \A j \in 1..Len(changed_services) :
         LET names == ServerNames(lb.servers[ServiceBackendOf(j)])
         IN  /\ Range(names) = SlotNamesOf(j)
             /\ Len(names) = SlotsOf(j)

\* A service shrank: the slots above the new T were deleted
C9_Witness ==
  /\ changed_services # <<>>
  /\ ServiceDone(1)
  /\ Len(DeletesOn(ServiceBackendOf(1))) >= 3
  /\ server_name(SlotsOf(1) + 1) \in Range(ListedOn(ServiceBackendOf(1)))

\* C10: for a changed service create_backend follows get_backend if and
\* only if get_backend reported the backend absent in this transaction; a
\* backend that exists is neither created again nor altered; the created
\* backend carries the fields of backend_options[service_name] and, where
\* these do not set them, its name, the configured mode and balance algorithm.
C10_BackendEnsured ==
  /\ Running =>
       \A i \in 1..Len(calls) :
         LET c == calls[i]
         IN  /\ (c.op = "get_backend" /\ i < Len(calls)
                    /\ \E j \in 1..Len(changed_services) : ServiceBackendOf(j) = c.backend) =>
                  (calls[i + 1].op = "create_backend" <=> c.status = "absent")
             /\ c.op = "create_backend" =>
                  /\ i > 1
                  /\ calls[i - 1].op = "get_backend"
                  /\ calls[i - 1].backend = c.backend
                  /\ calls[i - 1].status = "absent"
                  /\ c.status = "ok" \/ (i = Len(calls) /\ exc = c.status)
                  /\ \E j \in 1..Len(changed_services) :
                       LET name == changed_services[j].service_name
                           options == IF name \in DOMAIN cfg.backend_options
                                        THEN cfg.backend_options[name] ELSE <<>>
                       IN  /\ c.backend = ServiceBackendOf(j)
                           /\ DOMAIN c.data = {"name", "mode", "balance"} \cup DOMAIN options
                           /\ \A f \in DOMAIN options : c.data[f] = options[f]
                           /\ "name" \notin DOMAIN options => c.data.name = c.backend
                           /\ "mode" \notin DOMAIN options => c.data.mode = cfg.backend.mode
                           /\ "balance" \notin DOMAIN options =>
                                c.data.balance = [algorithm |-> cfg.backend.balance]
  /\ (Running /\ InScope) =>
       \A b \in BackendNames :
         lb.backends[b] # None => Staged.backends[b] = lb.backends[b]

\* A backend was created with the options of its service merged in
C10_Witness ==
  /\ Running
  /\ \E i \in 1..Len(calls) :
       /\ calls[i].op = "create_backend"
       /\ calls[i].status = "ok"
       /\ calls[i].data.mode = "tcp"
       /\ "cookie" \in DOMAIN calls[i].data

-----------------------------------------------------------------------------
(* One transaction per attempt *)

\* The calls of the running attempt made in the body of the with statement
BodyCalls ==
  {i \in 1..Len(calls) :
     calls[i].op \notin {"get_configuration_version", "create_transaction",
                          "delete_transaction"}}

\* The attempts so far that opened a transaction
Opened == {i \in 1..Len(history) : history[i].txn # 0}

\* C11: every attempt of reconcile opens at most one transaction, and exactly
\* one once its with-body runs; every backend or server call of the attempt
\* carries the id of that transaction; a reconcile that returns normally closed
\* the transaction of its last attempt with commit_transaction, which
\* succeeded, and committed no other transaction.
C11_OneTransaction ==
  /\ attempt > 0 =>
       /\ \A i, j \in Opened : history[i].txn = history[j].txn => i = j
       /\ \A i \in Opened : history[i].txn \in 1..Len(txns)
       /\ Len(txns) = Cardinality(Opened) + (IF Running /\ txn.id # 0 THEN 1 ELSE 0)
  /\ Running /\ ~InScope => BodyCalls = {} /\ txn.id = 0
  /\ Running /\ InScope =>
       /\ txn.id = Len(txns)
       /\ \A i \in Opened : history[i].txn # txn.id
       /\ Cardinality({i \in 1..Len(calls) : calls[i].op = "create_transaction"}) = 1
       /\ \A i \in 1..Len(calls) :
            calls[i].op = "create_transaction" => calls[i].txn = txn.id
       /\ \A i \in BodyCalls : calls[i].txn = txn.id
  /\ Finished /\ result = "returned" =>
       /\ LastAttempt.txn # 0
       /\ LastAttempt.closed = "commit_transaction"
       /\ \A i \in 1..Len(txns) : txns[i].status = "success" <=> i = LastAttempt.txn

\* A reconcile of two services returned at its second attempt: two
\* transactions were opened, the first was dropped and the second committed
C11_Witness ==
  /\ Finished
  /\ result = "returned"
  /\ Len(changed_services) = 2
  /\ Len(history) = 2
  /\ history[1].txn = 1
  /\ history[2].txn = 2
  /\ txns[1].status # "success"
  /\ txns[2].status = "success"

-----------------------------------------------------------------------------
(* The polling loop and the change detector *)

\* The positions of a cycle after its detect call returned
AfterDetect == {"check", "reconcile", "returned"}

\* C12: when a cycle's detect call gets the argument of the last detect call
\* that returned, and no reset ran since that call returned, detect reports
\* nothing changed and nothing removed, and the cycle does not call reconcile
\* (the only writer to the load balancer).
C12_IdenticalCycleIsIdle ==
  same =>
    /\ at \in DetectPcs \cup {"check", "returned"}
    /\ changed = <<>>
    /\ removed = <<>>
    /\ ~reconciled

\* Two services were discovered twice in a row and the second cycle has run
\* to its end
C12_Witness ==
  /\ same
  /\ at = "returned"
  /\ services = <<Small, Other>>
  /\ DOMAIN _previous = {Key1, Key2}

\* C13: a cycle calls reconcile exactly when detect returned a changed service
\* or a removed key; reconcile called with two empty lists returns without a
\* transaction and without a Dataplane call, the load balancer untouched.
C13_ReconcileIffChanged ==
  /\ at \in CyclePcs \ {"reconcile"} => ~reconciled
  /\ at = "reconcile" => reconciled /\ (changed # <<>> \/ removed # <<>>)
  /\ at = "returned" => (reconciled <=> (changed # <<>> \/ removed # <<>>))
  /\ pc = "done" /\ changed_services = <<>> /\ removed_keys = <<>> =>
       /\ result = "returned"
       /\ attempt = 0
       /\ txns = <<>>
       /\ calls = <<>>
       /\ history = <<>>

\* A cycle whose detect call found only a removed key has called reconcile
C13_Witness ==
  /\ at = "returned"
  /\ reconciled
  /\ changed = <<>>
  /\ removed = <<Key2>>

\* The triple (count, instance_id set, created_at set) of a service
Triple(service) ==
  << Len(service.instances),
     {service.instances[k].instance_id : k \in DOMAIN service.instances},
     {service.instances[k].created_at : k \in DOMAIN service.instances} >>

StoredTriple(state) == <<state.count, state.instance_ids, state.timestamps>>

\* C14: a detect call no reset ran into returns as removed the keys stored
\* when it began that are not among the current ones, each once, and as
\* changed the current services, in their order, whose key was not stored or
\* whose triple (count, instance_id set, created_at set) differs from the
\* stored one; nothing else of a service is compared.
C14_DiffByTriple ==
  at \in AfterDetect /\ entry # None =>
    LET stored == entry[1]
        differs(service) ==
          \/ ServiceKey(service) \notin DOMAIN stored
          \/ Triple(service) # StoredTriple(stored[ServiceKey(service)])
    IN  /\ Range(removed) = DOMAIN stored \ CurrentKeys(services)
        /\ Len(removed) = Cardinality(Range(removed))
        /\ changed = SelectSeq(services, differs)

\* The instances of a stored service came back with other addresses, ports,
\* zones and tags: detect returned no change
C14_Witness ==
  /\ at = "check"
  /\ entry # None
  /\ Key1 \in DOMAIN entry[1]
  /\ services = <<Readdressed(Small)>>
  /\ services # <<Small>>
  /\ changed = <<>>

\* C15: from the return of a detect call until a reset or the next return,
\* _previous holds exactly the keys of the services the call was given, each
\* with the triple of that service, changed or not; so the next call reports
\* as removed exactly the keys of that argument that are absent again, and a
\* key that was absent from it already is not reported a second time.
C15_StoredIsCurrent ==
  detected # None =>
    /\ DOMAIN _previous = CurrentKeys(detected[1])
    /\ \A k \in DOMAIN detected[1] :
         StoredTriple(_previous[ServiceKey(detected[1][k])]) = Triple(detected[1][k])
    /\ at \in AfterDetect => detected[1] = services
    /\ at = "store" =>
         Range(removed) = CurrentKeys(detected[1]) \ CurrentKeys(services)

\* One service came back unchanged and the other with fewer instances: both
\* are stored with their current triples
C15_Witness ==
  /\ at = "check"
  /\ detected # None
  /\ services = <<Other, Service(Key1, DiscoveryOrder(2))>>
  /\ changed = <<Service(Key1, DiscoveryOrder(2))>>
  /\ _previous[Key1].count = 2
  /\ _previous[Key2].count = 1

\* C16: the first detect call that begins after a reset (one that ran while no
\* detect call was running) returns every service it was given as changed, in
\* their order, and no removed key.
C16_ResetForgets ==
  obliged \notin {"none", "detect"} =>
    /\ at \in CyclePcs \cup {"returned", "except"}
    /\ removed = <<>>
    /\ at \in DetectPcs => changed = SubSeq(services, 1, detect_idx - 1)
    /\ at \in AfterDetect => changed = services

\* The reset ran after the detect call of an earlier cycle had returned; the
\* next call was given two services and returned both
C16_Witness ==
  /\ obliged = "reconcile"
  /\ at = "check"
  /\ services = <<Small, Other>>
  /\ changed = <<Small, Other>>
  /\ removed = <<>>

\* C17: after a SIGHUP, in whatever part of the polling loop it arrived
\* (sleep, discovery, detect, reconcile), the first detect call that begins
\* afterwards returns every discovered service as changed, and its cycle
\* reconciles them all.
C17_SighupReconcilesAll ==
  obliged # "none" /\ at \in AfterDetect =>
    /\ changed = services
    /\ at = "returned" /\ services # <<>> => reconciled

\* C18: the shutdown flag, once set, stays set; a cycle begins only at the
\* test of the while loop, and only with the flag clear; a cycle in progress
\* when the flag is set runs to its end, by return or by exception; and run()
\* returns.
C18_ShutdownStops ==
  /\ [][_shutdown => _shutdown']_vars
  /\ [][at # "discover" /\ at' = "discover" => at = "loop" /\ ~_shutdown]_vars
  /\ [][_shutdown /\ at \in {"returned", "except", "calculate_sleep", "sleep", "slice",
                             "loop", "stopped"}
          => at' \notin CyclePcs]_vars
  /\ (_shutdown /\ at \in CyclePcs) ~> (at \in {"returned", "except"})
  /\ _shutdown ~> (at = "stopped")

\* The flag was set, the cycle went on to call reconcile and to fail, and
\* run() has returned
C18_Witness ==
  /\ _shutdown
  /\ at = "stopped"
  /\ _consecutive_failures = 1
  /\ detected # None

\* C19: a slice of the sleep lasts at most 1 second and begins only after the
\* test of the sleep loop found the flag clear and time left; the time slept
\* in one sleep with the flag set is at most 1 second (one slice); and once
\* the flag is set during a sleep, run() returns.
C19_SleepInterruptible ==
  /\ [](waited <= Second)
  /\ [][at = "slice" /\ at' # "slice"
          => at' = "sleep" /\ remaining' >= 0 /\ remaining - remaining' <= Second]_vars
  /\ [][at # "slice" /\ at' = "slice"
          => at = "sleep" /\ ~_shutdown /\ remaining > 0]_vars
  /\ (_shutdown /\ at \in {"sleep", "slice"}) ~> (at = "stopped")

\* The flag was set after the test of the loop: one full slice was slept with
\* the flag set, and the next test ends the sleep with more than a second left
C19_Witness ==
  /\ at = "sleep"
  /\ _shutdown
  /\ waited = Second
  /\ remaining > Second

\* C20: _consecutive_failures changes only where a cycle ends: it becomes 0
\* when _cycle returned and one more when _cycle raised; no exception of a
\* cycle (from discovery, detect or reconcile) leaves run(): after a failed
\* cycle run() goes on to the sleep, and to the next cycle unless the
\* shutdown flag is set.
C20_FailuresCounted ==
  /\ [](at # "crashed")
  /\ [][at = "returned" /\ at' # at
          => _consecutive_failures' = 0 /\ at' = "calculate_sleep"]_vars
  /\ [][at = "except" /\ at' # at
          => /\ _consecutive_failures' = _consecutive_failures + 1
             /\ at' = "calculate_sleep"]_vars
  /\ [][at \notin {"returned", "except"} \/ at' = at
          => _consecutive_failures' = _consecutive_failures]_vars
  /\ [][at = "calculate_sleep" /\ at' # at => at' = "sleep"]_vars
  /\ (at = "except") ~> (at = "discover" \/ _shutdown)

\* After a failed cycle, the reconcile call of the next cycle has raised
C20_Witness ==
  /\ at = "except"
  /\ reconciled
  /\ _consecutive_failures = 1
  /\ ~_shutdown

-----------------------------------------------------------------------------
(* Functions called on their own *)

\* The call of the named function has returned
Returned(fn) == args # None /\ args.fn = fn /\ ret # None

\* C21: the sleep is max(0, base - elapsed + jitter), never negative, where
\* base is interval_seconds without failures and otherwise the smaller of
\* backoff_base_seconds * 2^(failures - 1) and max_backoff_seconds; from one
\* failure on the base does not decrease with the number of failures and
\* never exceeds max_backoff_seconds.
C21_SleepFormula ==
  Returned("_calculate_sleep") =>
    LET p == args.polling
        doubled == p.backoff_base_seconds * Second * Pow(2, args.failures - 1)
        cap == p.max_backoff_seconds * Second
        base == IF args.failures = 0 THEN p.interval_seconds * Second
                ELSE IF doubled <= cap THEN doubled ELSE cap
        Base(f) == _calculate_sleep(p, f, 0, 0)
    IN  /\ 0 <= args.jitter /\ args.jitter <= p.jitter_seconds * Second
        /\ ret[1] >= 0
        /\ ret[1] = (IF base - args.elapsed + args.jitter >= 0
                       THEN base - args.elapsed + args.jitter ELSE 0)
        /\ \A f \in 1..args.failures :
             /\ Base(f) <= cap
             /\ f > 1 => Base(f - 1) <= Base(f)

\* Third failure in a row: 3 s * 4 is capped at 4 s; 3 s of the cycle and
\* half a second of jitter leave a sleep of a second and a half
C21_Witness ==
  /\ Returned("_calculate_sleep")
  /\ args.polling = Polling
  /\ args.failures = 3
  /\ args.elapsed = 6
  /\ args.jitter = 1
  /\ ret = Some(3)

\* calculate_slots returned the slot count v
Slots(v) == Returned("calculate_slots") /\ ret[1] = Some(v)

\* calculate_slots raised instead of returning
SlotsRaised == Returned("calculate_slots") /\ ret[1] = None

\* C22: calculate_slots(n) >= max(n, base) for every n >= 0 and every
\* configuration that passes validation.
C22_SlotsCoverCount ==
  Returned("calculate_slots") /\ ~SlotsRaised =>
    /\ ret[1][1] >= args.active_count
    /\ ret[1][1] >= args.slots.base

\* The active counts above base and below the one calculate_slots was called with
Below == (args.slots.base + 1)..(args.active_count - 1)

C24_BaseAndLinear ==
  Returned("calculate_slots") =>
    LET sl == args.slots
        n == args.active_count
        product == (n - sl.base) * sl.growth_num     \* times growth_den
    IN  /\ n <= sl.base => ret[1] = Some(sl.base)
        /\ (n > sl.base /\ sl.growth_type = "linear") =>
             /\ ~SlotsRaised
             /\ (ret[1][1] - sl.base) * sl.growth_den >= product
             /\ (ret[1][1] - sl.base - 1) * sl.growth_den < product

\* base 10, factor 1.5, 15 instances: 10 + ceil(7.5) = 18 slots
C24_Witness ==
  /\ Slots(18)
  /\ args.slots = [ServerSlots("linear", 3, 2) EXCEPT !.base = 10]
  /\ args.active_count = 15

\* base * growth_factor^k >= n, in integers
Reaches(sl, k, n) == sl.base * Pow(sl.growth_num, k) >= n * Pow(sl.growth_den, k)

\* C25: in exponential mode, for every n > base, calculate_slots(n) returns a
\* value for every accepted growth_factor; for growth_factor > 1 it is
\* max(ceil(base * growth_factor^k), n), k the smallest integer >= 1 with
\* base * growth_factor^k >= n.
C25_ExponentialTiers ==
  (Returned("calculate_slots") /\ args.slots.growth_type = "exponential"
     /\ args.active_count > args.slots.base) =>
    LET sl == args.slots
        n == args.active_count
    IN  /\ ~SlotsRaised
        /\ sl.growth_num > sl.growth_den =>
             \E k \in 1..n :
               /\ Reaches(sl, k, n)
               /\ \A j \in 1..(k - 1) : ~Reaches(sl, j, n)
               /\ ret[1][1] * Pow(sl.growth_den, k) >= sl.base * Pow(sl.growth_num, k)
               /\ (ret[1][1] - 1) * Pow(sl.growth_den, k) < sl.base * Pow(sl.growth_num, k)
               /\ ret[1][1] >= n

\* The instance ids of a list of instances
Ids(instances) == {instances[k].instance_id : k \in 1..Len(instances)}

\* C26: apply keeps an instance if and only if no denylist entry equals the
\* instance's tag for that key and every allowlist entry equals the
\* instance's tag for that key; the kept instances are returned in the order
\* of the input, and all of them when both lists are empty.
C26_FilterKeeps ==
  Returned("apply") =>
    LET conf == args.tags_config
        Denied(inst) == \E key \in DOMAIN conf.denylist :
                          /\ key \in DOMAIN inst.tags
                          /\ inst.tags[key] = conf.denylist[key]
        Allowed(inst) == \A key \in DOMAIN conf.allowlist :
                           /\ key \in DOMAIN inst.tags
                           /\ inst.tags[key] = conf.allowlist[key]
        kept == {k \in 1..Len(args.instances) :
                   ~Denied(args.instances[k]) /\ Allowed(args.instances[k])}
    IN  /\ Ids(ret[1]) = {args.instances[k].instance_id : k \in kept}
        /\ Len(ret[1]) = Cardinality(kept)
        /\ \A i, j \in 1..Len(ret[1]) :
             i < j => ret[1][i].instance_id < ret[1][j].instance_id
        /\ (DOMAIN conf.denylist = {} /\ DOMAIN conf.allowlist = {})
             => Len(ret[1]) = Len(args.instances)

\* An instance that matches the whole allowlist and hits a denylist entry is
\* dropped, the one next to it that matches only the allowlist is kept
C26_Witness ==
  /\ Returned("apply")
  /\ args.tags_config = [allowlist |-> [env |-> "prod", team |-> "infra"],
                         denylist |-> [skip |-> "true"]]
  /\ Len(args.instances) = 2
  /\ DOMAIN args.instances[1].tags = {"env", "team", "skip"}
  /\ args.instances[1].tags.skip = "true"
  /\ DOMAIN args.instances[2].tags = {"env", "team"}
  /\ Ids(ret[1]) = {2}

\* C27: with the load balancer's availability_zone set, same_az = (instance
\* zone absent or equal to it) and az_perc = the integer of the weight tag
\* when it parses and lies in 1..99: the data of an active server has weight
\* = 100 - az_perc if same_az else az_perc when az_perc is present, has
\* backup=enabled and no weight when az_perc is absent and not same_az, and
\* neither otherwise; never both; neither when availability_zone is not
\* configured; maintenance data never carries weight, backup or cookie.
C27_AzWeighting ==
  /\ Returned("_active_server_data") =>
       LET data == ret[1]
           inst == args.instance
           zone == args.config.availability_zone
           same_az == inst.availability_zone = None \/ inst.availability_zone = zone
           tagged == AZ_TAG \in DOMAIN inst.tags
           parsed == IF tagged THEN ParseInt(inst.tags[AZ_TAG]) ELSE None
           present == parsed # None /\ parsed[1] \in 1..99
           Has(field) == field \in DOMAIN data
       IN  /\ (zone # None /\ present) =>
                /\ Has("weight") /\ ~Has("backup")
                /\ data.weight = (IF same_az THEN 100 - parsed[1] ELSE parsed[1])
           /\ (zone # None /\ ~present /\ ~same_az) =>
                /\ Has("backup") /\ ~Has("weight")
                /\ data.backup = "enabled"
           /\ (zone # None /\ ~present /\ same_az) => ~Has("weight") /\ ~Has("backup")
           /\ zone = None => ~Has("weight") /\ ~Has("backup")
           /\ ~(Has("weight") /\ Has("backup"))
  /\ Returned("_maintenance_server_data") =>
       DOMAIN ret[1] \cap {"weight", "backup", "cookie"} = {}

\* Load balancer in zone 1, instance in zone 2 tagged "25": weight 25
C27_Witness ==
  /\ Returned("_active_server_data")
  /\ args.config.availability_zone = Some("1")
  /\ args.instance.availability_zone = Some("2")
  /\ TagGet(args.instance.tags, AZ_TAG) = Some(<<"2", "5">>)
  /\ "weight" \in DOMAIN ret[1]
  /\ ret[1].weight = 25

\* The number of instances in the services stored under the given keys
RECURSIVE Counted(_, _)
Counted(grouped, keys) ==
  IF keys = {} THEN 0
  ELSE LET key == CHOOSE k \in keys : TRUE
       IN  active_count(grouped[key]) + Counted(grouped, keys \ {key})

\* C28: group_instances partitions its input: every input instance appears
\* in exactly one returned service, the one stored under its backend_key
\* (service_name, service_port, region), whose own fields equal that key; no
\* returned service is empty, and the instance counts sum to the length of
\* the input.
C28_GroupingPartitions ==
  Returned("group_instances") =>
    LET grouped == ret[1]
        Holds(key, inst) == \E k \in 1..Len(grouped[key].instances) :
                              grouped[key].instances[k] = inst
    IN  /\ \A i \in 1..Len(args.instances) :
             LET inst == args.instances[i]
             IN  /\ <<inst.service_name, inst.service_port, inst.region>> \in DOMAIN grouped
                 /\ \A key \in DOMAIN grouped :
                      Holds(key, inst)
                        <=> key = <<inst.service_name, inst.service_port, inst.region>>
        /\ \A key \in DOMAIN grouped :
             /\ grouped[key].service_name = key[1]
             /\ grouped[key].service_port = key[2]
             /\ grouped[key].region = key[3]
             /\ grouped[key].instances # <<>>
        /\ Counted(grouped, DOMAIN grouped) = Len(args.instances)

\* Three instances, two of one service and one that differs in the region
\* only: two services, of two instances and of one
C28_Witness ==
  /\ Returned("group_instances")
  /\ Len(args.instances) = 3
  /\ DOMAIN ret[1] = {Key1, <<"app", 8080, "westus">>}
  /\ active_count(ret[1][Key1]) = 2
  /\ active_count(ret[1][<<"app", 8080, "westus">>]) = 1

\* The machine would be admitted: running, with a non-empty private address,
\* a non-empty service name tag and a service port tag that is an integer
Admissible(raw) ==
  /\ raw.running
  /\ raw.private_ip # None /\ raw.private_ip[1] # ""
  /\ SERVICE_NAME_TAG \in DOMAIN raw.tags /\ raw.tags[SERVICE_NAME_TAG] # ""
  /\ SERVICE_PORT_TAG \in DOMAIN raw.tags
  /\ ParseInt(raw.tags[SERVICE_PORT_TAG]) # None

\* The positions of the returned list that hold the instance id
Places(id) == {k \in 1..Len(ret[1]) : ret[1][k].instance_id = id}

\* C29: in the list AWSClient.discover_all returns every instance_id appears
\* at most once; an instance the EC2 enumeration finds that is also a member
\* of a tagged Auto Scaling Group is returned once, with source ec2.
C29_NoDuplicateIds ==
  Returned("AWSClient.discover_all") =>
    \A m \in 1..Len(args.account.machines) :
      LET raw == args.account.machines[m]
          member == \E g \in 1..Len(args.account.groups) :
                      /\ SERVICE_NAME_TAG \in DOMAIN args.account.groups[g].tags
                      /\ \E k \in 1..Len(args.account.groups[g].members) :
                           args.account.groups[g].members[k] = raw.id
      IN  /\ Cardinality(Places(raw.id)) <= 1
          /\ (Admissible(raw) /\ member) =>
               /\ Cardinality(Places(raw.id)) = 1
               /\ \A k \in Places(raw.id) : ret[1][k].source = "ec2"

\* Both machines are found by EC2 and are members of the tagged group: two
\* instances are returned, both from EC2
C29_Witness ==
  /\ Returned("AWSClient.discover_all")
  /\ \A m \in 1..2 : Admissible(args.account.machines[m])
  /\ args.account.groups[1].members = <<1, 2>>
  /\ Len(ret[1]) = 2
  /\ \A k \in 1..2 : ret[1][k].source = "ec2"

\* The returned instances whose source is the given one
From(source) == {k \in 1..Len(ret[1]) : ret[1][k].source = source}

\* The returned instance carries what admission requires
Carries(inst) ==
  /\ inst.private_ip # ""
  /\ SERVICE_NAME_TAG \in DOMAIN inst.tags /\ inst.tags[SERVICE_NAME_TAG] # ""
  /\ SERVICE_PORT_TAG \in DOMAIN inst.tags
  /\ ParseInt(inst.tags[SERVICE_PORT_TAG]) # None

\* C30: every instance discover_all returns (AWS EC2/ASG, Azure VM/VMSS) is
\* running, has a non-empty private_ip, a present non-empty service_name tag
\* and a service_port tag that parses as an integer; an instance failing any
\* of these is omitted while the other instances are still returned.
C30_OnlyAdmissible ==
  /\ Returned("AWSClient.discover_all") =>
       /\ \A k \in 1..Len(ret[1]) : Carries(ret[1][k])
       /\ \A m \in 1..Len(args.account.machines) :
            Places(args.account.machines[m].id) # {}
              <=> Admissible(args.account.machines[m])
  /\ Returned("AzureClient.discover_all") =>
       /\ \A k \in 1..Len(ret[1]) : Carries(ret[1][k])
       /\ \A m \in 1..Len(args.subscription.vms) :
            (\E k \in From("vm") : ret[1][k].instance_id = args.subscription.vms[m].id)
              <=> Admissible(args.subscription.vms[m])
       /\ From("vmss") # {} =>
            \A s \in 1..Len(args.subscription.scale_sets) :
              \A m \in 1..Len(args.subscription.scale_sets[s].instances) :
                /\ args.subscription.scale_sets[s].instances[m].running
                /\ ~Missing(args.subscription.scale_sets[s].instances[m].private_ip, "")

-----------------------------------------------------------------------------
(* The requests of the Dataplane client *)

\* A server call has built its request
Requested ==
  /\ args # None
  /\ args.fn \in {"list_servers", "create_server", "replace_server", "delete_server"}
  /\ ret # None

\* C31: servers are addressed by the configured API version: with v2 the
\* list/create/replace/delete server calls use the flat path
\* /services/haproxy/configuration/servers[/{srv}] with a backend query
\* parameter, with v3 the nested path
\* /services/haproxy/configuration/backends/{name}/servers[/{srv}].
C31_ServerPaths ==
  Requested =>
    LET root == "http://localhost:5555/" \o args.api_version
                  \o "/services/haproxy/configuration"
        srv == IF args.fn \in {"replace_server", "delete_server"}
                 THEN "/" \o args.name ELSE ""
    IN  /\ args.api_version = "v2" =>
             /\ ret[1].url = root \o "/servers" \o srv
             /\ "backend" \in DOMAIN ret[1].params
             /\ ret[1].params.backend = args.backend
        /\ args.api_version = "v3" =>
             ret[1].url = root \o "/backends/" \o args.backend \o "/servers" \o srv

-----------------------------------------------------------------------------
(* Errors of the Dataplane API.  The status "conflict" of a call is the HTTP *)
(* status 409 (DataplaneVersionConflict), "error" any other status >= 400 or *)
(* a transport failure (DataplaneAPIError), "absent" the 404 of get_backend. *)

\* _safe_delete has just closed an attempt and its call was answered so
Swallowed(kind) ==
  /\ pc \in {"enter", "done"}
  /\ calls # <<>>
  /\ calls[1].op = "delete_transaction"
  /\ calls[1].status = kind

\* A call of the running attempt that failed is the last one, and its
\* exception is the one in flight; a backend that is absent raises nothing
FailuresRaised ==
  /\ \A i \in 1..Len(calls) :
       /\ (calls[i].op # "delete_transaction" /\ calls[i].status \in {"conflict", "error"}) =>
            /\ i = Len(calls)
            /\ pc = "exit"
            /\ exc = calls[i].status
       /\ calls[i].status = "absent" =>
            /\ calls[i].op = "get_backend"
            /\ i = Len(calls) => exc = "none"
  /\ (Running /\ exc # "none") => calls[Len(calls)].status = exc

\* An attempt that ended with a version conflict is followed by another one
\* unless it was the third, which makes reconcile raise the conflict; an
\* attempt that ended with another error is the last, and reconcile raises it
OutcomesFollowed ==
  attempt > 0 =>
    \A i \in 1..Len(history) :
      /\ history[i].outcome = "conflict" =>
           IF i < MAX_VERSION_RETRIES THEN attempt > i
           ELSE Finished /\ attempt = i /\ result = "conflict"
      /\ history[i].outcome = "error" =>
           /\ i = Len(history)
           /\ attempt = i
           /\ Finished
           /\ result = "error"

\* C32 as stated: every 409, on whichever call of a reconcile attempt, is
\* raised as a version conflict and counts toward the 3-attempt retry, the
\* delete_transaction that closes an attempt included; every other failure is
\* raised as an error that is not retried; only an absent backend at
\* get_backend raises nothing.
C32_EveryConflictCounts ==
  /\ FailuresRaised
  /\ OutcomesFollowed
  /\ \A kind \in {"conflict", "error"} : Swallowed(kind) => LastAttempt.outcome = kind

\* C32: every 409 on a call of a reconcile attempt other than the
\* delete_transaction that closes it is raised as a version conflict and
\* counts toward the 3-attempt retry; every other failure of such a call is
\* raised as an error that is not retried, except an absent backend at
\* get_backend, which raises nothing; whatever delete_transaction answers, the
\* attempt ends with the exception that made it drop its transaction.
C32_ConflictsRetried ==
  /\ FailuresRaised
  /\ OutcomesFollowed
  /\ \A kind \in {"ok", "conflict", "error"} :
       (Running \/ Finished) /\ Swallowed(kind) =>
         /\ LastAttempt.closed = "delete_transaction"
         /\ LastAttempt.exception \in {"conflict", "error"}
         /\ LastAttempt.outcome = LastAttempt.exception

\* A write failed with an error, the delete_transaction that followed was
\* answered 409, and reconcile raised the error after that one attempt
C32_Witness ==
  /\ Finished
  /\ Swallowed("conflict")
  /\ LastAttempt.exception = "error"
  /\ result = "error"
  /\ attempt = 1
  /\ txn._changed

-----------------------------------------------------------------------------
(* Atomicity of a reconcile *)

\* The committed configuration: what a reader without transaction id sees
Committed == [backends |-> lb.backends, servers |-> lb.servers]

\* C33: the committed backends and servers change only in the step of a
\* successful commit_transaction, which ends reconcile normally and puts in
\* place the staged result of all changed services and all removed keys;
\* while an attempt runs and after a reconcile that raised, no transaction of
\* the call has been committed, so the committed state is the one from before.
C33_CommitAtomic ==
  [][ /\ Committed' # Committed =>
           /\ pc = "exit"
           /\ exc = "none"
           /\ \A j \in 1..Len(changed_services) : ServiceDone(j)
           /\ \A j \in 1..Len(removed_keys) : KeyDone(j)
           /\ Committed' = Staged
           /\ txns'[txn.id].status = "success"
           /\ pc' = "done"
           /\ result' = "returned"
      /\ (Running \/ (Finished /\ result # "returned")) =>
           \A i \in 1..Len(txns) : txns[i].status # "success"
    ]_vars

\* The second attempt of a reconcile of a changed service and a removed key
\* was committed after the first one had been dropped
C33_Witness ==
  /\ Finished
  /\ result = "returned"
  /\ Len(history) = 2
  /\ history[1].exception # "none"
  /\ changed_services # <<>>
  /\ removed_keys # <<>>
  /\ \A j \in 1..Len(changed_services) :
       /\ lb.backends[ServiceBackendOf(j)] # None
       /\ Len(lb.servers[ServiceBackendOf(j)]) = SlotsOf(j)

-----------------------------------------------------------------------------
(* Retries *)

\* The calls of the running attempt on a backend that carry its transaction
UnderTransaction(b) == SelectSeq(CallsOn(b), LAMBDA c : c.txn = txn.id)

\* C34: an attempt after the first follows a version conflict and is a full
\* run of its own: it starts by reading the configuration version, opens a
\* transaction no earlier attempt had, rooted at the version just read, and
\* by the end of its body has read the backend and the servers and issued
\* the writes of every changed service and has looked up the backend of every
\* removed key, all under the new transaction; a conflict on attempt 1 and
\* success on attempt 2 are exactly two runs and a normal return.
C34_RetryIsFullRun ==
  /\ (Running /\ attempt >= 2) =>
       /\ history[attempt - 1].outcome = "conflict"
       /\ pc # "enter" =>
            /\ calls # <<>>
            /\ calls[1].op = "get_configuration_version"
            /\ calls[1].status = "ok"
       /\ InScope =>
            /\ \A i \in Opened : history[i].txn # txn.id
            /\ calls[2].op = "create_transaction"
            /\ calls[2].txn = txn.id
            /\ txns[txn.id].version = txn.version
            /\ pc # "exit" => txn.version = lb.version
            /\ txn.version <= lb.version
            /\ \A i \in Opened : txns[history[i].txn].version <= txn.version
       /\ (pc = "exit" /\ exc = "none") =>
            /\ \A j \in 1..Len(changed_services) :
                 LET b == ServiceBackendOf(j)
                     on == UnderTransaction(b)
                 IN  /\ on = CallsOn(b)
                     /\ on[1].op = "get_backend"
                     /\ \E k \in 1..Len(on) : on[k].op = "list_servers"
                     /\ Len(WritesOn(b)) = SlotsOf(j)
            /\ \A j \in 1..Len(removed_keys) :
                 LET on == UnderTransaction(KeyBackendOf(j))
                 IN  /\ on = CallsOn(KeyBackendOf(j))
                     /\ on[1].op = "get_backend"
                     /\ on[1].status = "ok" =>
                          /\ on[2].op = "list_servers"
                          /\ Len(on) = 2 + Len(on[2].data.servers)
  /\ (Finished /\ Len(history) >= 2 /\ history[1].outcome = "conflict"
        /\ history[2].outcome = "ok") =>
       /\ attempt = 2
       /\ Len(history) = 2
       /\ result = "returned"
       /\ history[2].closed = "commit_transaction"
       /\ history[1].txn # history[2].txn
       /\ txns[history[2].txn].status = "success"

\* commit_transaction of the first attempt was refused because another writer
\* had committed; the second attempt, rooted at the newer version, succeeded
C34_Witness ==
  /\ Finished
  /\ result = "returned"
  /\ Len(history) = 2
  /\ history[1].closed = "commit_transaction"
  /\ history[1].outcome = "conflict"
  /\ txns[history[1].txn].version < txns[history[2].txn].version
  /\ faults = 0

-----------------------------------------------------------------------------
(* Empty transactions *)

\* The calls of the running attempt that change the staged configuration
IssuedWrites ==
  {i \in 1..Len(calls) :
     calls[i].op \in {"create_backend", "create_server", "replace_server", "delete_server"}}

\* Nothing is to be done for the removed key: no backend, or one without servers
NothingToDisable(j) ==
  \/ lb.backends[KeyBackendOf(j)] = None
  \/ lb.servers[KeyBackendOf(j)] = <<>>

\* C36: a transaction of reconcile is closed with commit_transaction only if
\* the attempt issued at least one create_backend, create_server,
\* replace_server or delete_server in it; a reconcile of nothing but removed
\* keys whose backend is absent or has no servers returns with its
\* transaction deleted and no transaction committed.
C36_CommitOnlyWrites ==
  /\ (Running /\ pc = "exit" /\ ExitCall(exc, txn._changed) = "commit_transaction") =>
       IssuedWrites # {}
  /\ (Finished /\ result = "returned" /\ changed_services = <<>>
        /\ \A j \in 1..Len(removed_keys) : NothingToDisable(j)) =>
       /\ LastAttempt.closed = "delete_transaction"
       /\ \A i \in 1..Len(txns) : txns[i].status # "success"

-----------------------------------------------------------------------------
(* Release of transactions *)

\* C37: every transaction an attempt created is closed when the attempt has
\* ended, and so before the next transaction is created: either
\* commit_transaction succeeded for it or delete_transaction was called for
\* it; a transaction whose commit was refused with 409 is deleted before the
\* retry.
C37_TransactionsClosed ==
  attempt > 0 =>
    \A i \in Opened :
      \/ history[i].closed = "delete_transaction"
      \/ /\ history[i].closed = "commit_transaction"
         /\ history[i].outcome = "ok"
         /\ txns[history[i].txn].status = "success"

-----------------------------------------------------------------------------
(* Instances and slots in the committed configuration *)

\* The committed servers of the backend that carry the instance as active
SlotsCarrying(b, inst) ==
  {k \in 1..Len(lb.servers[b]) :
     /\ lb.servers[b][k].maintenance = "disabled"
     /\ lb.servers[b][k].address = inst.private_ip
     /\ lb.servers[b][k].port = effective_port(inst)}

\* C38: once reconcile has returned, every instance of a changed service is
\* carried by exactly one active server of the committed backend, and the
\* backend has as many active servers as the service has instances, so no
\* server carries two instances and no instance is without a slot.
C38_EveryInstanceCarried ==
  (Finished /\ result = "returned") =>
    \A j \in 1..Len(changed_services) :
      LET b == ServiceBackendOf(j)
          insts == Range(changed_services[j].instances)
      IN  /\ \A inst \in insts : Cardinality(SlotsCarrying(b, inst)) = 1
          /\ Cardinality({k \in 1..Len(lb.servers[b]) :
                            lb.servers[b][k].maintenance = "disabled"})
               = Cardinality(insts)

-----------------------------------------------------------------------------
(* Discovery outages *)

\* C39: when discover_all raises, the cycle goes to the except clause of
\* run() with _previous and the record of the last detect call as they were,
\* without having called reconcile, and so without a Dataplane call; the
\* except clause adds one to _consecutive_failures and changes nothing else
\* of the detector or of the load balancer; until the next detect call
\* begins, _previous holds the keys of the last snapshot unless a reset
\* emptied it.
C39_OutageFrame ==
  /\ [][at = "discover" /\ at' # at =>
          /\ at' \in {"detect", "except"}
          /\ at' = "except" =>
               /\ _previous' = _previous
               /\ detected' = detected
               /\ ~reconciled
               /\ ~reconciled'
               /\ _consecutive_failures' = _consecutive_failures
               /\ UNCHANGED reconcilerVars]_vars
  /\ [][at = "except" /\ at' # at =>
          /\ _consecutive_failures' = _consecutive_failures + 1
          /\ _previous' = _previous
          /\ detected' = detected
          /\ UNCHANGED reconcilerVars]_vars
  /\ [](at \in {"except", "calculate_sleep", "sleep", "slice", "loop", "discover", "detect"}
          /\ detected # None
        => DOMAIN _previous = CurrentKeys(detected[1]))

\* discover_all raised in the cycle after one that was also failing, with a
\* snapshot stored by an earlier cycle and no SIGHUP since
C39_Witness ==
  /\ at = "except"
  /\ entry = None
  /\ hup = "none"
  /\ ~reconciled
  /\ _consecutive_failures = 1
  /\ detected # None
  /\ DOMAIN _previous # {}

-----------------------------------------------------------------------------
(* reset() during detect() *)

\* C40: whenever reset() runs during detect(), detect() does not raise: the
\* key it looks up with self._previous[key] is in _previous; and when
\* detect() has returned, _previous is empty or holds the snapshot of every
\* current service.
C40_ResetDuringDetect ==
  /\ at = "compare" => ServiceKey(services[detect_idx]) \in DOMAIN _previous
  /\ at = "check" =>
       \/ DOMAIN _previous = {}
       \/ _previous = StoredState(services, changed)

-----------------------------------------------------------------------------
(* Convergence after a failed reconcile *)

\* What ends the obligation to reconcile again: discovery returned something
\* else or failed, detect raised, a SIGHUP arrived, the daemon is shutting down
Excused ==
  \/ at = "check" /\ ~same
  \/ at = "except" /\ ~reconciled
  \/ hup # "none"
  \/ _shutdown

\* C35: when reconcile has raised in a cycle, a later cycle calls reconcile
\* again, unless discovery stops returning the same services, a cycle fails
\* before reconcile, or a signal arrives.
C35_ReconciledAgain ==
  (at = "except" /\ reconciled) ~> (at = "reconcile" \/ Excused)

====
